---- MODULE Spec2Model ----
(***************************************************************************)
(* Eurozone Consumer Trend Analyzer: the observation entity (models.py),   *)
(* the statistics strategies and the analytics engine (engine.py) and the  *)
(* row coercion of the data gateway (gateway.py).                          *)
(*                                                                         *)
(* Python values are tagged records: [t |-> "none"], [t |-> "num", v],     *)
(* [t |-> "str", s] with s a sequence of characters, [t |-> "dict", items] *)
(* and [t |-> "list", elems]; an object (a dataclass instance) is a record *)
(* of its attributes and carries no field t.  Numbers are integers, the    *)
(* results of divisions exact fractions [n, d]; the rounding of binary     *)
(* floating point is not modelled.                                         *)
(***************************************************************************)
EXTENDS Integers, Sequences, FiniteSets, TLC

VARIABLES
    data,      \* the in-memory collection: a sequence of CESObservation
    built,     \* outcome of the last CESObservation(...) call
    res,       \* outcome of the last engine / strategy call
    rows,      \* the rows csv.DictReader yields for the file
    out,       \* outcome of the last gateway call
    tasks,     \* run_analysis coroutines: position, future, result
    queue,     \* the executor's work queue (FIFO of task ids)
    worker     \* what each pool thread is running

vars == <<data, built, res, rows, out, tasks, queue, worker>>

----------------------------------------------------------------------------
(* Python values *)

NoneV == [t |-> "none"]
Num(x) == [t |-> "num", v |-> x]
Str(x) == [t |-> "str", s |-> x]
Dict(f) == [t |-> "dict", items |-> f]
EmptyMap == [k \in {} |-> NoneV]

\* floats that are not finite: float('nan'), float('inf'), float('-inf')
NaN == [t |-> "num", nonfinite |-> "nan"]
PosInf == [t |-> "num", nonfinite |-> "inf"]
NegInf == [t |-> "num", nonfinite |-> "-inf"]
IsFinite(x) == "v" \in DOMAIN x

IsObject(x) == "t" \notin DOMAIN x
IsNone(x) == (~IsObject(x)) /\ x.t = "none"

\* exact fractions
Frac(a, b) == [n |-> a, d |-> b]
FracEq(x, y) == x.n * y.d = y.n * x.d
FracLe(x, y) == IF x.d * y.d > 0 THEN x.n * y.d <= y.n * x.d ELSE x.n * y.d >= y.n * x.d
Zero == Frac(0, 1)

RECURSIVE SumSeq(_)
SumSeq(s) == IF s = <<>> THEN 0 ELSE Head(s) + SumSeq(Tail(s))

----------------------------------------------------------------------------
(* models.py: the enumerations and the module dataclasses with their       *)
(* defaults                                                                *)

EmploymentStatus ==
    ("EMPLOYED" :> <<"1">>) @@ ("UNEMPLOYED" :> <<"2">>) @@ ("INACTIVE" :> <<"3">>) @@
    ("OTHER" :> <<"4">>) @@ ("UNKNOWN" :> <<"u", "n", "k", "n", "o", "w", "n">>)

HouseholdMember(member_id, age, relation_status) ==
    [member_id |-> Num(member_id), age |-> age, relation_status |-> relation_status]

OccupationalProfile ==
    [edu_level |-> NoneV, employment_sector |-> NoneV, occupation_type |-> NoneV,
     industry |-> NoneV, hours_worked |-> NoneV, firm_size |-> NoneV,
     contract_type |-> NoneV, tenure |-> NoneV, public_private |-> NoneV]

DemographicsModule ==
    [gender |-> NoneV, age_group |-> NoneV, household_size |-> NoneV, num_children |-> NoneV,
     occupation |-> OccupationalProfile, household_members |-> [t |-> "list", elems |-> <<>>]]

MacroModule ==
    [inflation_1y |-> Num(0), inflation_3y |-> NoneV, inflation_perception_12m |-> NoneV,
     inflation_uncertainty |-> NoneV, econ_growth_12m |-> NoneV, interest_rate_exp |-> NoneV,
     unemployment_percept |-> NoneV]

ConsumptionModule ==
    [income_growth |-> NoneV, spending_growth |-> NoneV, major_purchases_intent |-> NoneV,
     savings_growth |-> NoneV, tax_exp |-> NoneV, public_svc_exp |-> NoneV,
     housing_costs_exp |-> NoneV, energy_exp |-> NoneV, food_exp |-> NoneV]

LaborModule ==
    [job_loss_prob |-> NoneV, job_find_prob |-> NoneV, prob_working_after_70 |-> NoneV,
     prob_inc_increase |-> NoneV, prob_leaving_labor_market |-> NoneV,
     employment_status |-> Str(EmploymentStatus["UNKNOWN"])]

HousingWealthModule ==
    [house_price_exp |-> NoneV, buy_home_conditions |-> NoneV, cash_savings |-> NoneV,
     life_insurance |-> NoneV, pension_funds |-> NoneV, mutual_funds |-> NoneV,
     public_bonds |-> NoneV, corp_bonds |-> NoneV, stocks |-> NoneV,
     business_equity |-> NoneV, crypto_assets |-> NoneV, precious_metals |-> NoneV,
     other_financial_details |-> Dict(EmptyMap)]

CreditDebtModule ==
    [mortgage_access |-> NoneV, consumer_credit_access |-> NoneV, bank_loan_apply |-> NoneV,
     credit_constraint_flag |-> NoneV, repayment_increase_prob |-> NoneV,
     loan_repayment_struggle |-> NoneV, debt_level_expected |-> NoneV,
     repayment_capacity |-> NoneV]

Date(y, m, d) == [year |-> Num(y), month |-> Num(m), day |-> Num(d)]

\* the keyword arguments of a CESObservation(...) call, the three open maps
\* defaulting to empty dicts
ObservationArgs(id, date, macro, consumption, labor, weight, flags) ==
    [id |-> Num(id), observation_date |-> date, macro |-> macro,
     consumption |-> consumption, labor |-> labor, housing |-> HousingWealthModule,
     credit |-> CreditDebtModule, demographics |-> DemographicsModule,
     survey_weight |-> weight, sentiment_flags |-> Dict(flags),
     quarterly_data |-> Dict(EmptyMap), quality_audit |-> Dict(EmptyMap)]

MinYear == 2000
MaxYear == 2030

validate_date_range(v) == ~(v.year.v < MinYear \/ v.year.v > MaxYear)

\* Every comparison with NaN is false, so a bound that pydantic checks as
\* "reject unless v > 0" refuses NaN and one it checks as "reject if v <= 0"
\* lets it through.  The library is not part of the source: nan_ok is
\* whether its bounds let NaN through, and both outcomes are modelled.
NanOutcomes == BOOLEAN

\* Field(gt=0)
FieldGt0(v, nan_ok) == IF IsFinite(v) THEN v.v > 0 ELSE IF v = NaN THEN nan_ok ELSE v = PosInf

\* if v <= 0: raise ValueError
validate_weight_positive(v) == ~(IF IsFinite(v) THEN v.v <= 0 ELSE v = NegInf)

\* CESObservation.__init__: the validated instance, or a ValidationError
CESObservation(args, nan_ok) ==
    IF /\ validate_date_range(args.observation_date)
       /\ FieldGt0(args.survey_weight, nan_ok)
       /\ validate_weight_positive(args.survey_weight)
    THEN [ok |-> TRUE, obs |-> args]
    ELSE [ok |-> FALSE, error |-> "ValidationError"]

----------------------------------------------------------------------------
(* engine.py: path resolution and GenericMeanStrategy *)

\* str.split('.') of the dotted paths the model draws from
PathParts ==
    ("macro.inflation_1y" :> <<"macro", "inflation_1y">>) @@
    ("consumption.income_growth" :> <<"consumption", "income_growth">>) @@
    ("labor.job_loss_prob" :> <<"labor", "job_loss_prob">>) @@
    ("housing.house_price_exp" :> <<"housing", "house_price_exp">>) @@
    ("labor.employment_status" :> <<"labor", "employment_status">>) @@
    ("survey_weight" :> <<"survey_weight">>) @@
    ("macro" :> <<"macro">>) @@
    ("macro.c4030" :> <<"macro", "c4030">>) @@
    ("x6020" :> <<"x6020">>)

Split(path) == PathParts[path]

\* getattr(x, part): an AttributeError when x has no such attribute. The
\* attributes of an object are its fields; the methods of the builtin values
\* (float.real, dict.get, ...) are left out.
HasAttr(x, part) == IsObject(x) /\ part \in DOMAIN x

RECURSIVE Walk(_, _)
Walk(x, parts) ==
    IF parts = <<>> THEN [ok |-> TRUE, val |-> x]
    ELSE IF HasAttr(x, Head(parts)) THEN Walk(x[Head(parts)], Tail(parts))
    ELSE [ok |-> FALSE]

\* dict.get(key)
DictGet(d, key) == IF key \in DOMAIN d.items THEN d.items[key] ELSE NoneV

\* lines 18-28 of compute: the attribute walk, then the sentiment_flags fallback
ResolveValue(obs, path) ==
    LET w == Walk(obs, Split(path)) IN
    IF w.ok THEN w.val
    ELSE LET val == DictGet(obs.sentiment_flags, path) IN
         IF IsNone(val) THEN DictGet(obs.sentiment_flags, path \o "_1") ELSE val

\* isinstance(val, (int, float))
IsNumeric(val) == (~IsObject(val)) /\ val.t = "num"

NoneCountsAsZero(obs, path) ==
    LET val == ResolveValue(obs, path) IN
    IF IsNumeric(val) THEN <<val.v>> ELSE <<0>>

\* the values one observation appends: its resolved value if numeric
Contribution(obs, path) ==
    LET val == ResolveValue(obs, path) IN
    IF IsNumeric(val) THEN <<val.v>> ELSE <<>>

\* the loop of compute over data, building values
RECURSIVE CollectValues(_, _)
CollectValues(d, path) ==
    IF d = <<>> THEN <<>>
    ELSE Contribution(Head(d), path) \o CollectValues(Tail(d), path)

\* sum(values) / len(values) if values else 0.0
GenericMeanStrategy(d, path) ==
    LET values == CollectValues(d, path) IN
    IF values # <<>> THEN Frac(SumSeq(values), Len(values)) ELSE Zero

----------------------------------------------------------------------------
(* The strategies engine.py is tested with (test_system.py imports them    *)
(* from engine) but whose code is not among the sources: WeightedMean,     *)
(* Percentile, DescriptiveStats, as the specification describes them.      *)

\* numerator and denominator over the observations whose value resolves
RECURSIVE WeightedSums(_, _)
WeightedSums(d, path) ==
    IF d = <<>> THEN [num |-> 0, den |-> 0]
    ELSE LET rest == WeightedSums(Tail(d), path)
             val == ResolveValue(Head(d), path)
             w == Head(d).survey_weight.v
         IN IF IsNumeric(val)
            THEN [num |-> w * val.v + rest.num, den |-> w + rest.den]
            ELSE rest

WeightedMeanStrategy(d, path) ==
    LET s == WeightedSums(d, path) IN
    IF s.den = 0 THEN Zero ELSE Frac(s.num, s.den)

\* sorted(values): insertion into an ascending sequence
RECURSIVE Insert(_, _)
Insert(x, s) ==
    IF s = <<>> THEN <<x>>
    ELSE IF x <= Head(s) THEN <<x>> \o s
    ELSE <<Head(s)>> \o Insert(x, Tail(s))

RECURSIVE Sorted(_)
Sorted(s) == IF s = <<>> THEN <<>> ELSE Insert(Head(s), Sorted(Tail(s)))

\* linear interpolation at rank p * (n - 1) of the ascending values, p = p.n / p.d
Interpolate(sv, p) ==
    LET n == Len(sv)
        rank == p.n * (n - 1)
        lo == rank \div p.d
        rem == rank % p.d
        hi == IF lo + 1 < n THEN lo + 1 ELSE n - 1
    IN Frac(p.d * sv[lo + 1] + rem * (sv[hi + 1] - sv[lo + 1]), p.d)

PercentileStrategy(d, path, p) ==
    LET values == CollectValues(d, path) IN
    IF values = <<>> THEN Zero ELSE Interpolate(Sorted(values), p)

RECURSIVE SumSquares(_)
SumSquares(s) == IF s = <<>> THEN 0 ELSE Head(s) * Head(s) + SumSquares(Tail(s))

\* the sample variance, whose square root the sample standard deviation is
SampleVariance(values) ==
    LET n == Len(values)
        sm == SumSeq(values)
    IN Frac(n * SumSquares(values) - sm * sm, n * (n - 1))

DescriptiveStatsStrategy(d, path) ==
    LET values == CollectValues(d, path)
        sv == Sorted(values)
        n == Len(values)
    IN IF n = 0
       THEN [min |-> NoneV, max |-> NoneV, mean |-> NoneV, median |-> NoneV,
             stdev |-> NoneV, count |-> 0]
       ELSE [min |-> Num(sv[1]), max |-> Num(sv[n]),
             mean |-> Num(Frac(SumSeq(values), n)),
             median |-> Num(Interpolate(sv, Frac(1, 2))),
             stdev |-> IF n < 2 THEN NoneV ELSE [t |-> "sqrt", of |-> SampleVariance(values)],
             count |-> n]

----------------------------------------------------------------------------
(* engine.py: AnalyticsEngine.filter_by_date and find_by_date.  A string   *)
(* the code searches in is a sequence of one-character strings.            *)

RECURSIVE filter_by_date_exclusive(_, _, _)
filter_by_date_exclusive(d, start_year, end_year) ==
    IF d = <<>> THEN <<>>
    ELSE (IF start_year <= Head(d).observation_date.year.v
             /\ Head(d).observation_date.year.v < end_year
          THEN <<Head(d)>> ELSE <<>>)
         \o filter_by_date_exclusive(Tail(d), start_year, end_year)

\* [obj for obj in data if start_year <= obj.observation_date.year <= end_year]
RECURSIVE filter_by_date(_, _, _)
filter_by_date(d, start_year, end_year) ==
    IF d = <<>> THEN <<>>
    ELSE (IF start_year <= Head(d).observation_date.year.v
             /\ Head(d).observation_date.year.v <= end_year
          THEN <<Head(d)>> ELSE <<>>)
         \o filter_by_date(Tail(d), start_year, end_year)

UpperCase == <<"A", "B", "C", "D", "E", "F", "G", "H", "I", "J", "K", "L", "M",
               "N", "O", "P", "Q", "R", "S", "T", "U", "V", "W", "X", "Y", "Z">>
LowerCase == <<"a", "b", "c", "d", "e", "f", "g", "h", "i", "j", "k", "l", "m",
               "n", "o", "p", "q", "r", "s", "t", "u", "v", "w", "x", "y", "z">>
Digits == <<"0", "1", "2", "3", "4", "5", "6", "7", "8", "9">>

LowerChar(c) ==
    IF \E i \in DOMAIN UpperCase : UpperCase[i] = c
    THEN LowerCase[CHOOSE i \in DOMAIN UpperCase : UpperCase[i] = c]
    ELSE c

\* str.lower()
Lower(str) == [i \in DOMAIN str |-> LowerChar(str[i])]

IsSpace(c) == c = " "

\* str.strip()
RECURSIVE LStrip(_)
LStrip(str) == IF str # <<>> /\ IsSpace(Head(str)) THEN LStrip(Tail(str)) ELSE str

RECURSIVE RStrip(_)
RStrip(str) ==
    IF str # <<>> /\ IsSpace(str[Len(str)]) THEN RStrip(SubSeq(str, 1, Len(str) - 1)) ELSE str

Strip(str) == RStrip(LStrip(str))

\* str(n) for n >= 0
RECURSIVE IntStr(_)
IntStr(n) == IF n < 10 THEN <<Digits[n + 1]>> ELSE IntStr(n \div 10) \o <<Digits[(n % 10) + 1]>>

\* "%m": the month, zero-padded to two digits; "%Y": the year
TwoDigits(n) == <<Digits[(n \div 10) + 1], Digits[(n % 10) + 1]>>
StrfYm(d) == IntStr(d.year.v) \o <<"-">> \o TwoDigits(d.month.v)
StrfmY(d) == TwoDigits(d.month.v) \o <<"-">> \o IntStr(d.year.v)

\* sub in str
Contains(str, sub) ==
    \E i \in 0..(Len(str) - Len(sub)) : SubSeq(str, i + 1, i + Len(sub)) = sub

\* the months mapping, in its insertion order: months[k] = position of k
MonthNames == <<<<"j", "a", "n">>,
               <<"f", "e", "b">>,
               <<"m", "a", "r">>,
               <<"a", "p", "r">>,
               <<"m", "a", "y">>,
               <<"j", "u", "n">>,
               <<"j", "u", "l">>,
               <<"a", "u", "g">>,
               <<"s", "e", "p">>,
               <<"o", "c", "t">>,
               <<"n", "o", "v">>,
               <<"d", "e", "c">>>>

\* next(k for k in months if k in search_str)
FirstMonthIn(str) ==
    CHOOSE k \in DOMAIN MonthNames :
        /\ Contains(str, MonthNames[k])
        /\ \A j \in 1..(k - 1) : ~Contains(str, MonthNames[j])

\* the three tests of the loop body on one observation
Matches(obs, str) ==
    LET d == obs.observation_date IN
    \/ str = StrfYm(d)
    \/ str = StrfmY(d)
    \/ /\ \E k \in DOMAIN MonthNames : Contains(str, MonthNames[k])
       /\ Contains(str, IntStr(d.year.v))
       /\ FirstMonthIn(str) = d.month.v

RECURSIVE FirstMatching(_, _)
FirstMatching(d, str) ==
    IF d = <<>> THEN NoneV
    ELSE IF Matches(Head(d), str) THEN Head(d)
    ELSE FirstMatching(Tail(d), str)

find_by_date(d, search_str) == FirstMatching(d, Strip(Lower(search_str)))

\* sorted(list(set(obj.observation_date.year for obj in data)))
get_available_years(d) ==
    LET years == {d[i].observation_date.year.v : i \in DOMAIN d}
        RECURSIVE Asc(_)
        Asc(S) == IF S = {} THEN <<>>
                  ELSE LET lo == CHOOSE x \in S : \A y \in S : x <= y
                       IN <<lo>> \o Asc(S \ {lo})
    IN Asc(years)

----------------------------------------------------------------------------
(* Bounds and input sets *)

MaxObs == 3          \* observations in a collection
PHalf == 2           \* percentiles are the multiples of 1 / (2 * PHalf)

NoCall == [op |-> "none"]
NoTasks == [k \in {} |-> NoCall]

Percentiles == {Frac(k, 2 * PHalf) : k \in 0..(2 * PHalf)}

StatPaths == {"consumption.income_growth", "x6020", "labor.employment_status"}
StatWeights == {Num(1), Num(2)}
\* <<consumption.income_growth, sentiment_flags>> of a constructed observation
StatValues ==
    {<<NoneV, EmptyMap>>, <<Num(0), EmptyMap>>, <<Num(1), EmptyMap>>, <<Num(4), EmptyMap>>,
     <<NoneV, "x6020_1" :> Num(3)>>}

DateYears == {MinYear - 1, MinYear, MinYear + 1, MaxYear, MaxYear + 1}
DateMonths == {3, 6}
DateWeights == {Num(-5), Num(0), Num(1), NaN}

----------------------------------------------------------------------------
(* Building the collection: one CESObservation(...) call per step *)

Construct(args) ==
    /\ res = NoCall
    /\ built = NoCall
    /\ Len(data) < MaxObs
    /\ \E nan_ok \in NanOutcomes :
           built' = [op |-> "construct", args |-> args,
                     result |-> CESObservation(args, nan_ok)]
    /\ data' = IF built'.result.ok THEN Append(data, built'.result.obs) ELSE data
    /\ res' = NoCall
    /\ UNCHANGED <<rows, out, tasks, queue, worker>>

\* observations as the strategy tests build them: one date, varying values
ConstructValued ==
    \E w \in StatWeights, gf \in StatValues :
        Construct(ObservationArgs(Len(data) + 1, Date(2024, 1, 1), MacroModule,
                                  [ConsumptionModule EXCEPT !.income_growth = gf[1]],
                                  LaborModule, w, gf[2]))

\* observations as the filter test builds them: varying date, default
\* modules and weight
ConstructDated ==
    \E y \in DateYears, m \in DateMonths :
        Construct(ObservationArgs(Len(data) + 1, Date(y, m, 1), MacroModule,
                                  ConsumptionModule, LaborModule, Num(1), EmptyMap))

\* observations as the validation tests build them: varying year and weight
ConstructWeighted ==
    \E y \in DateYears, w \in DateWeights :
        Construct(ObservationArgs(Len(data) + 1, Date(y, 6, 15), MacroModule,
                                  ConsumptionModule, LaborModule, w, EmptyMap))

----------------------------------------------------------------------------
(* Strategy calls: strategy.compute(data) *)

Call(r) ==
    /\ res = NoCall
    /\ built = NoCall
    /\ res' = r
    /\ UNCHANGED <<data, built, rows, out, tasks, queue, worker>>

ComputeGenericMean ==
    \E path \in StatPaths :
        Call([op |-> "mean", path |-> path, value |-> GenericMeanStrategy(data, path)])

ComputeWeightedMean ==
    \E path \in StatPaths :
        Call([op |-> "weighted", path |-> path, value |-> WeightedMeanStrategy(data, path)])

ComputePercentile ==
    \E path \in StatPaths, p \in Percentiles :
        Call([op |-> "percentile", path |-> path, p |-> p,
              value |-> PercentileStrategy(data, path, p)])

ComputeDescriptiveStats ==
    \E path \in StatPaths :
        Call([op |-> "describe", path |-> path, value |-> DescriptiveStatsStrategy(data, path)])

\* the caller takes the result
Return ==
    /\ res # NoCall \/ built # NoCall
    /\ res' = NoCall
    /\ built' = NoCall
    /\ UNCHANGED <<data, rows, out, tasks, queue, worker>>

InitEngine ==
    /\ data = <<>>
    /\ built = NoCall
    /\ res = NoCall
    /\ rows = <<>>
    /\ out = NoCall
    /\ tasks = NoTasks
    /\ queue = <<>>
    /\ worker = NoTasks

Init == InitEngine

Next ==
    \/ ConstructValued
    \/ ComputeGenericMean
    \/ ComputeWeightedMean
    \/ ComputePercentile
    \/ ComputeDescriptiveStats
    \/ Return

Spec == Init /\ [][Next]_vars

----------------------------------------------------------------------------
(* The values a path resolves to, stated by position rather than by the    *)
(* loop of compute: the observations whose resolved value is numeric.      *)

ResolvedIdx(d, path) == {i \in DOMAIN d : IsNumeric(ResolveValue(d[i], path))}
ValueAt(d, path) == [i \in ResolvedIdx(d, path) |-> ResolveValue(d[i], path).v]
WeightAt(d, path) == [i \in ResolvedIdx(d, path) |-> d[i].survey_weight.v]

RECURSIVE SumFn(_)
SumFn(f) ==
    IF DOMAIN f = {} THEN 0
    ELSE LET i == CHOOSE i \in DOMAIN f : TRUE
         IN f[i] + SumFn([j \in DOMAIN f \ {i} |-> f[j]])

\* the k-th smallest of the values of f, by counting
KthSmallest(f, k) ==
    CHOOSE x \in {f[i] : i \in DOMAIN f} :
        /\ Cardinality({i \in DOMAIN f : f[i] < x}) < k
        /\ k <= Cardinality({i \in DOMAIN f : f[i] <= x})

Median(f) ==
    LET n == Cardinality(DOMAIN f) IN
    IF n % 2 = 1 THEN Frac(KthSmallest(f, (n + 1) \div 2), 1)
    ELSE Frac(KthSmallest(f, n \div 2) + KthSmallest(f, (n \div 2) + 1), 2)

\* C1: GenericMeanStrategy.compute returns sum(V) / len(V) over the numeric
\* values V the path resolves to, a resolved 0 counting as a value, and 0.0
\* when the collection or V is empty; the divisor is never zero.
C1_GenericMeanIsSumOverLen ==
    res.op = "mean" =>
        LET V == ValueAt(data, res.path)
            n == Cardinality(DOMAIN V)
        IN /\ res.value.d # 0
           /\ IF n = 0 THEN FracEq(res.value, Zero)
              ELSE res.value.n * n = SumFn(V) * res.value.d

\* three observations, one unresolved, one resolving to 0, one to a nonzero value
C1_Witness ==
    /\ res.op = "mean"
    /\ Len(data) = 3
    /\ LET V == ValueAt(data, res.path)
       IN /\ Cardinality(DOMAIN V) = 2
          /\ \E i, j \in DOMAIN V : V[i] = 0 /\ V[j] # 0

\* C3: WeightedMeanStrategy.compute returns sum(w_i * v_i) / sum(w_i) over
\* exactly the observations whose path resolves to a number, 0.0 when none
\* does or the weight sum is zero, and the generic mean when all weights are
\* equal.
C3_WeightedMean ==
    res.op = "weighted" =>
        LET V == ValueAt(data, res.path)
            W == WeightAt(data, res.path)
            wsum == SumFn(W)
        IN /\ res.value.d # 0
           /\ IF DOMAIN V = {} \/ wsum = 0 THEN FracEq(res.value, Zero)
              ELSE res.value.n * wsum = SumFn([i \in DOMAIN V |-> W[i] * V[i]]) * res.value.d
           /\ (\A i, j \in DOMAIN data : data[i].survey_weight = data[j].survey_weight)
                 => FracEq(res.value, GenericMeanStrategy(data, res.path))

\* unequal weights, an unresolved observation, and a weighted mean that
\* differs from the plain mean
C3_Witness ==
    /\ res.op = "weighted"
    /\ Len(data) = 3
    /\ Cardinality(ResolvedIdx(data, res.path)) = 2
    /\ ~FracEq(res.value, GenericMeanStrategy(data, res.path))

\* C4: PercentileStrategy at p = 0.5 is the median of the resolved values
\* (middle element for an odd count, mean of the two middle ones for an even
\* count), and at any p the result lies between the minimum and the maximum
\* resolved value and does not decrease with p.
C4_PercentileMedianAndRange ==
    (res.op = "percentile" /\ ResolvedIdx(data, res.path) # {}) =>
        LET V == ValueAt(data, res.path)
            n == Cardinality(DOMAIN V)
        IN /\ FracEq(res.p, Frac(1, 2)) => FracEq(res.value, Median(V))
           /\ FracLe(Frac(KthSmallest(V, 1), 1), res.value)
           /\ FracLe(res.value, Frac(KthSmallest(V, n), 1))
           /\ \A q \in Percentiles :
                 FracLe(q, res.p) => FracLe(PercentileStrategy(data, res.path, q), res.value)

\* the median of three distinct values
C4_Witness ==
    /\ res.op = "percentile"
    /\ FracEq(res.p, Frac(1, 2))
    /\ LET V == ValueAt(data, res.path)
       IN /\ Cardinality(DOMAIN V) = 3
          /\ Cardinality({V[i] : i \in DOMAIN V}) = 3

\* C5: DescriptiveStatsStrategy.compute returns min, max, mean, median,
\* stdev and count over the resolved values; count 0 gives None for all five
\* statistics, one value gives stdev None, two or more give the sample
\* standard deviation.
C5_DescriptiveStats ==
    res.op = "describe" =>
        LET V == ValueAt(data, res.path)
            n == Cardinality(DOMAIN V)
            sm == SumFn(V)
            r == res.value
        IN /\ DOMAIN r = {"min", "max", "mean", "median", "stdev", "count"}
           /\ r.count = n
           /\ n = 0 => /\ IsNone(r.stdev) /\ IsNone(r.min) /\ IsNone(r.max)
                       /\ IsNone(r.mean) /\ IsNone(r.median)
           /\ n = 1 => IsNone(r.stdev)
           /\ n >= 1 => /\ r.min = Num(KthSmallest(V, 1))
                        /\ r.max = Num(KthSmallest(V, n))
                        /\ FracEq(r.mean.v, Frac(sm, n))
                        /\ FracEq(r.median.v, Median(V))
           /\ n >= 2 => /\ r.stdev.t = "sqrt"
                        /\ FracEq(r.stdev.of,
                                  Frac(SumFn([i \in DOMAIN V |-> (n * V[i] - sm) * (n * V[i] - sm)]),
                                       n * n * (n - 1)))

\* two differing values beside an unresolved observation: a nonzero deviation
C5_Witness ==
    /\ res.op = "describe"
    /\ Len(data) = 3
    /\ res.value.count = 2
    /\ res.value.min # res.value.max

----------------------------------------------------------------------------
(* Dated collections: construction with validation, filter_by_date and     *)
(* find_by_date                                                            *)

UpperChar(c) ==
    IF \E i \in DOMAIN LowerCase : LowerCase[i] = c
    THEN UpperCase[CHOOSE i \in DOMAIN LowerCase : LowerCase[i] = c]
    ELSE c

Upper(str) == [i \in DOMAIN str |-> UpperChar(str[i])]

\* the English month names of the months the model dates observations in
FullMonthName == (3 :> <<"M", "a", "r", "c", "h">>) @@ (6 :> <<"J", "u", "n", "e">>)

\* the ways a query may write month m in free text
MonthWords(m) == {MonthNames[m], Upper(MonthNames[m]), FullMonthName[m]}

\* what may precede the month in a free-text query
TextPrefixes == {<<>>, <<"R", "e", "m", "a", "r", "k", ":", " ">>}

\* the queries of the three accepted forms for year y and month m
QueriesFor(y, m) ==
    {[form |-> "YYYY-MM", text |-> StrfYm(Date(y, m, 1))],
     [form |-> "YYYY-MM", text |-> <<" ">> \o StrfYm(Date(y, m, 1)) \o <<" ">>],
     [form |-> "MM-YYYY", text |-> StrfmY(Date(y, m, 1))]}
    \cup {[form |-> "text", text |-> pre \o w \o <<" ">> \o IntStr(y)] :
             pre \in TextPrefixes, w \in MonthWords(m)}

FilterByDate ==
    \E start_year \in DateYears, end_year \in DateYears :
        Call([op |-> "filter", start_year |-> start_year, end_year |-> end_year,
              input |-> data, value |-> filter_by_date(data, start_year, end_year)])

FindByDate ==
    \E y \in DateYears, m \in DateMonths :
        \E q \in QueriesFor(y, m) :
            Call([op |-> "find", y |-> y, m |-> m, form |-> q.form, query |-> q.text,
                  value |-> find_by_date(data, q.text)])

NextDates ==
    \/ ConstructDated
    \/ FilterByDate
    \/ FindByDate
    \/ Return

SpecDates == InitEngine /\ [][NextDates]_vars

NextValidate ==
    \/ ConstructWeighted
    \/ Return

SpecValidate == InitEngine /\ [][NextValidate]_vars

\* v > 0 of a float
IsPositive(v) == IF IsFinite(v) THEN v.v > 0 ELSE v = PosInf

\* C2: constructing a CESObservation fails exactly when the year is below
\* 2000 or above 2030 or the weight is not positive; otherwise it succeeds
\* and stores date and weight as given; so every observation of the
\* collection has a year in 2000..2030 and a positive weight.
C2_FailsOnlyForYearOrNonPositiveWeight ==
    /\ built.op = "construct" =>
          LET a == built.args
              w == a.survey_weight
              valid == /\ 2000 <= a.observation_date.year.v
                       /\ a.observation_date.year.v <= 2030
                       /\ ~(IsFinite(w) /\ w.v <= 0)
          IN /\ built.result.ok <=> valid
             /\ built.result.ok =>
                   /\ built.result.obs.observation_date = a.observation_date
                   /\ built.result.obs.survey_weight = a.survey_weight
                   /\ data # <<>> /\ data[Len(data)] = built.result.obs
    /\ \A i \in DOMAIN data :
          /\ 2000 <= data[i].observation_date.year.v
          /\ data[i].observation_date.year.v <= 2030
          /\ IsPositive(data[i].survey_weight)

\* what the code does keep, whatever the bounds do with NaN: construction
\* fails when the year is outside 2000..2030 or the weight is <= 0, succeeds
\* with date and weight stored as given when the year is inside and the
\* weight is > 0, and no observation has a year outside or a weight <= 0.
C2_ConstructionValidates ==
    /\ built.op = "construct" =>
          LET a == built.args
              w == a.survey_weight
              yearOk == 2000 <= a.observation_date.year.v /\ a.observation_date.year.v <= 2030
          IN /\ (~yearOk \/ ~validate_weight_positive(w)) => ~built.result.ok
             /\ (yearOk /\ w # NaN /\ validate_weight_positive(w)) => built.result.ok
             /\ built.result.ok =>
                   /\ built.result.obs.observation_date = a.observation_date
                   /\ built.result.obs.survey_weight = a.survey_weight
                   /\ data # <<>> /\ data[Len(data)] = built.result.obs
    /\ \A i \in DOMAIN data :
          /\ 2000 <= data[i].observation_date.year.v
          /\ data[i].observation_date.year.v <= 2030
          /\ validate_weight_positive(data[i].survey_weight)


\* the k-th smallest index of a set of positions
KthIndex(I, k) == CHOOSE i \in I : Cardinality({j \in I : j < i}) = k - 1

\* C6: filter_by_date returns exactly the observations whose year lies in
\* [start_year, end_year], bounds included, each once and in their original
\* order, leaves the collection as it was, and returns the empty list when
\* start_year > end_year.
C6_FilterByDate ==
    res.op = "filter" =>
        LET I == {i \in DOMAIN data :
                     /\ res.start_year <= data[i].observation_date.year.v
                     /\ data[i].observation_date.year.v <= res.end_year}
        IN /\ Len(res.value) = Cardinality(I)
           /\ \A k \in 1..Len(res.value) : res.value[k] = data[KthIndex(I, k)]
           /\ res.start_year > res.end_year => res.value = <<>>
           /\ data = res.input

\* a proper range that keeps an observation of its last year and drops one
C6_Witness ==
    /\ res.op = "filter"
    /\ res.start_year < res.end_year
    /\ Len(data) = 3
    /\ Len(res.value) = 2
    /\ \E k \in DOMAIN res.value : res.value[k].observation_date.year.v = res.end_year
    /\ \E k \in DOMAIN res.value : res.value[k].observation_date.year.v = res.start_year

\* the first observation of year y and month m, None when there is none
FirstOfMonth(d, y, m) ==
    LET I == {i \in DOMAIN d : d[i].observation_date.year.v = y
                               /\ d[i].observation_date.month.v = m}
    IN IF I = {} THEN NoneV ELSE d[KthIndex(I, 1)]

\* C7: find_by_date, given year y and month m in any of the three accepted
\* forms (free text holding the month's abbreviation and the year included),
\* returns the first observation of that year and month, or None.
C7_FindByDateAnyForm ==
    res.op = "find" => res.value = FirstOfMonth(data, res.y, res.m)

\* what the code does keep: the two numeric forms, and free text in which no
\* earlier month's abbreviation occurs, find the first observation of the month
C7_FindByDateUnambiguous ==
    (res.op = "find"
       /\ \A k \in 1..(res.m - 1) : ~Contains(Lower(res.query), MonthNames[k]))
        => res.value = FirstOfMonth(data, res.y, res.m)

----------------------------------------------------------------------------
(* gateway.py: field coercion.  A cell is a string (a sequence of          *)
(* characters) or NoValue, the None csv.DictReader fills a short row with. *)
(* A float is held in fixed point, as a whole number of 10^-FracDigits:    *)
(* parsing rounds to the nearest such number as float() rounds to the      *)
(* nearest double.  An int is held as it is.                               *)

FracDigits == 1
DoubleMaxExp10 == 308

RECURSIVE Pow10(_)
Pow10(k) == IF k = 0 THEN 1 ELSE 10 * Pow10(k - 1)

Scale == Pow10(FracDigits)

\* the float with the real value x
Float(x) == Num(x * Scale)

\* a cell without a value
NoValue == NoneV

IsDigit(c) == \E i \in DOMAIN Digits : Digits[i] = c
DigitValue(c) == (CHOOSE i \in DOMAIN Digits : Digits[i] = c) - 1

\* a run of digits in which single underscores may separate digits
IsDigitRun(str) ==
    /\ str # <<>>
    /\ IsDigit(str[1]) /\ IsDigit(str[Len(str)])
    /\ \A i \in DOMAIN str : IsDigit(str[i]) \/ str[i] = "_"
    /\ \A i \in 1..(Len(str) - 1) : ~(str[i] = "_" /\ str[i + 1] = "_")

RECURSIVE DigitsOf(_)
DigitsOf(str) ==
    IF str = <<>> THEN <<>>
    ELSE (IF IsDigit(Head(str)) THEN <<Head(str)>> ELSE <<>>) \o DigitsOf(Tail(str))

RECURSIVE DropLeadingZeros(_)
DropLeadingZeros(ds) ==
    IF ds # <<>> /\ Head(ds) = "0" THEN DropLeadingZeros(Tail(ds)) ELSE ds

RECURSIVE DropTrailingZeros(_)
DropTrailingZeros(ds) ==
    IF ds # <<>> /\ ds[Len(ds)] = "0" THEN DropTrailingZeros(SubSeq(ds, 1, Len(ds) - 1))
    ELSE ds

RECURSIVE DigitsValue(_)
DigitsValue(ds) ==
    IF ds = <<>> THEN 0 ELSE 10 * DigitsValue(SubSeq(ds, 1, Len(ds) - 1)) + DigitValue(ds[Len(ds)])

\* position of the first occurrence of one of the characters cs, 0 if none
FirstPos(str, cs) ==
    IF \E i \in DOMAIN str : str[i] \in cs
    THEN CHOOSE i \in DOMAIN str : str[i] \in cs /\ \A j \in 1..(i - 1) : str[j] \notin cs
    ELSE 0

\* round half to even of num / den, den > 0
RoundHalfEven(num, den) ==
    LET q == num \div den
        r == num % den
    IN IF 2 * r < den THEN q
       ELSE IF 2 * r > den THEN q + 1
       ELSE IF q % 2 = 0 THEN q ELSE q + 1

\* the leading digits of 2^1024 - 2^970, the least magnitude that rounds to
\* infinity; its later digits are not zero
DoubleOverflowDigits == <<"1", "7", "9", "7", "6", "9", "3", "1", "3", "4", "8", "6", "2", "3", "1", "5", "8", "0", "7", "9", "3">>

\* digit sequences of one length, compared as numbers
RECURSIVE DigitsLess(_, _)
DigitsLess(a, b) ==
    IF a = <<>> THEN FALSE
    ELSE IF Head(a) # Head(b) THEN DigitValue(Head(a)) < DigitValue(Head(b))
    ELSE DigitsLess(Tail(a), Tail(b))

PadTo(ds, n) == [i \in 1..n |-> IF i <= Len(ds) THEN ds[i] ELSE "0"]

\* the magnitude  0.ds * 10^(Len(ds) + exp10)  is beyond the largest double
\* (decided on the leading digits of the literal)
Overflows(ds, exp10) ==
    LET n == Len(DoubleOverflowDigits) IN
    \/ Len(ds) + exp10 > DoubleMaxExp10 + 1
    \/ /\ Len(ds) + exp10 = DoubleMaxExp10 + 1
       /\ DigitsLess(DoubleOverflowDigits, PadTo(ds, n))

\* the float nearest to  mantissa * 10^exp10, the mantissa given by its
\* digits without leading or trailing zeros
NearestFloat(neg, ds, exp10) ==
    LET sgn == IF neg THEN -1 ELSE 1
        k == exp10 + FracDigits
    IN IF ds = <<>> THEN Num(0)
       ELSE IF Overflows(ds, exp10) THEN (IF neg THEN NegInf ELSE PosInf)
       ELSE IF Len(ds) + k < 0 THEN Num(0)
       ELSE IF k >= 0 THEN Num(sgn * DigitsValue(ds) * Pow10(k))
       ELSE Num(sgn * RoundHalfEven(DigitsValue(ds), Pow10(-k)))

\* the decimal literal  intpart [. fracpart] [e [sign] digits]
ParseDecimal(neg, str) ==
    LET epos == FirstPos(str, {"e", "E"})
        mant == IF epos = 0 THEN str ELSE SubSeq(str, 1, epos - 1)
        expo == IF epos = 0 THEN <<>> ELSE SubSeq(str, epos + 1, Len(str))
        eneg == expo # <<>> /\ Head(expo) = "-"
        edig == IF expo # <<>> /\ Head(expo) \in {"+", "-"} THEN Tail(expo) ELSE expo
        dpos == FirstPos(mant, {"."})
        ipart == IF dpos = 0 THEN mant ELSE SubSeq(mant, 1, dpos - 1)
        fpart == IF dpos = 0 THEN <<>> ELSE SubSeq(mant, dpos + 1, Len(mant))
        wellFormed ==
            /\ ipart = <<>> \/ IsDigitRun(ipart)
            /\ fpart = <<>> \/ IsDigitRun(fpart)
            /\ ipart # <<>> \/ fpart # <<>>
            /\ epos # 0 => IsDigitRun(edig)
        fds == DropTrailingZeros(DigitsOf(fpart))
        all == DigitsOf(ipart) \o fds
        ds == DropLeadingZeros(IF fds = <<>> THEN DropTrailingZeros(all) ELSE all)
        shift == IF fds = <<>> THEN Len(all) - Len(DropTrailingZeros(all)) ELSE -Len(fds)
        eds == DropLeadingZeros(DigitsOf(edig))
        \* an exponent of more than four digits is beyond every double
        e == IF Len(eds) > 4 THEN 10000 ELSE DigitsValue(eds)
    IN IF ~wellFormed THEN [ok |-> FALSE]
       ELSE [ok |-> TRUE, val |-> NearestFloat(neg, ds, shift + (IF eneg THEN -e ELSE e))]

\* float(str): the value, or a ValueError
ParseFloat(str) ==
    LET s0 == Strip(str)
        neg == s0 # <<>> /\ Head(s0) = "-"
        body == IF s0 # <<>> /\ Head(s0) \in {"+", "-"} THEN Tail(s0) ELSE s0
        low == Lower(body)
    IN IF low \in {<<"i", "n", "f">>, <<"i", "n", "f", "i", "n", "i", "t", "y">>} THEN [ok |-> TRUE, val |-> IF neg THEN NegInf ELSE PosInf]
       ELSE IF low = <<"n", "a", "n">> THEN [ok |-> TRUE, val |-> NaN]
       ELSE ParseDecimal(neg, body)

\* row.get(key, "")
RowGet(row, key) == IF key \in DOMAIN row THEN row[key] ELSE Str(<<>>)

Returned(v) == [raised |-> FALSE, val |-> v]
Raised(e) == [raised |-> TRUE, error |-> e]

\* CESDataGateway._f
_f(row, key) ==
    LET cell == RowGet(row, key) IN
    IF IsNone(cell) THEN Raised("AttributeError")
    ELSE LET val == Strip(cell.s) IN
         IF val = <<>> \/ Lower(val) = <<"n", "o", "n", "e">> THEN Returned(NoneV)
         ELSE LET p == ParseFloat(val) IN
              IF p.ok THEN Returned(p.val) ELSE Returned(NoneV)

\* int(round(x)) of a float
IntRound(x) ==
    IF x = NaN THEN Raised("ValueError")
    ELSE IF ~IsFinite(x) THEN Raised("OverflowError")
    ELSE Returned(Num(RoundHalfEven(x.v, Scale)))

\* CESDataGateway._i
_i(row, key) ==
    LET r == _f(row, key) IN
    IF r.raised THEN r
    ELSE IF IsNone(r.val) THEN Returned(NoneV)
    ELSE IntRound(r.val)

----------------------------------------------------------------------------
(* Field coercion applied to one row.  A row is what csv.DictReader       *)
(* yields: a cell is a string, or None where the line is shorter than the *)
(* header.                                                                *)

CoerceKeys == {"wgt", "c1010"}

CoerceTexts ==
    {<<>>, <<" ">>, <<"n", "o", "n", "e">>, <<" ", "N", "O", "N", "E", " ">>, <<"a", "b", "c">>, <<"1", "2", ".", "5">>, <<" ", "3", " ">>, <<"0">>, <<"0", ".", "5">>, <<"1", ".", "5">>, <<"-", "2", ".", "5">>, <<"1", "e", "2">>,
     <<"n", "a", "n">>, <<"i", "n", "f">>, <<"1", "e", "4", "0", "0">>}

CoerceCells == {Str(text) : text \in CoerceTexts} \cup {NoValue}

\* the rows over every subset of the two columns
CoerceRows == UNION {[K -> CoerceCells] : K \in SUBSET CoerceKeys}

InitCoerce ==
    /\ data = <<>>
    /\ built = NoCall
    /\ res = NoCall
    /\ rows \in {<<row>> : row \in CoerceRows}
    /\ out = NoCall
    /\ tasks = NoTasks
    /\ queue = <<>>
    /\ worker = NoTasks

CallF ==
    /\ out = NoCall
    /\ \E key \in CoerceKeys :
           out' = [op |-> "_f", key |-> key, result |-> _f(rows[1], key)]
    /\ UNCHANGED <<data, built, res, rows, tasks, queue, worker>>

CallI ==
    /\ out = NoCall
    /\ \E key \in CoerceKeys :
           out' = [op |-> "_i", key |-> key, result |-> _i(rows[1], key)]
    /\ UNCHANGED <<data, built, res, rows, tasks, queue, worker>>

\* the caller takes the outcome of the call
TakeOutcome ==
    /\ out # NoCall
    /\ out.op \in {"_f", "_i"}
    /\ out' = NoCall
    /\ UNCHANGED <<data, built, res, rows, tasks, queue, worker>>

NextCoerce ==
    \/ CallF
    \/ CallI
    \/ TakeOutcome

SpecCoerce == InitCoerce /\ [][NextCoerce]_vars

\* the cell holds no number: missing, without value, blank, "none", or not
\* a numeric literal
HoldsNoNumber(row, key) ==
    \/ key \notin DOMAIN row
    \/ IsNone(row[key])
    \/ Strip(row[key].s) = <<>>
    \/ Lower(Strip(row[key].s)) = <<"n", "o", "n", "e">>
    \/ ~ParseFloat(Strip(row[key].s)).ok

IsInteger(x) == IsNumeric(x) /\ IsFinite(x)

\* C8: _f and _i never raise; _f returns None when the cell is missing, has
\* no value, is blank, is "none" in any case or is not a number, and the
\* parsed number otherwise; _i returns None exactly when _f does and an
\* integer otherwise.
C8_CoercionNeverRaises ==
    (out # NoCall /\ out.op \in {"_f", "_i"}) =>
        LET row == rows[1]
            absent == HoldsNoNumber(row, out.key)
        IN /\ ~out.result.raised
           /\ absent => IsNone(out.result.val)
           /\ (~absent /\ out.op = "_f") =>
                  out.result.val = ParseFloat(Strip(row[out.key].s)).val
           /\ (~absent /\ out.op = "_i") => IsInteger(out.result.val)

----------------------------------------------------------------------------
(* gateway.py: load_all_data, one iteration of its loop per row.  Floats  *)
(* read from the file count units of 10^-FracDigits; ints (ids, years,    *)
(* rounded codes) are whole.                                              *)

DecStr == <<"1", "2", "3", "4", "5", "6", "7", "8", "9", "10">>

\* f"{prefix}{j}"
Key(prefix, j) == prefix \o DecStr[j]

\* sub in k
KeyContains(k, sub) ==
    \E i \in 1..(Len(k) - Len(sub) + 1) : SubSeq(k, i, i + Len(sub) - 1) = sub

\* k.endswith(suffix)
KeyEndsWith(k, suffix) ==
    Len(k) >= Len(suffix) /\ SubSeq(k, Len(k) - Len(suffix) + 1, Len(k)) = suffix

\* x or y
Truthy(x) == ~IsNone(x) /\ ~(IsFinite(x) /\ x.v = 0)
Or(x, y) == IF Truthy(x) THEN x ELSE y

\* the calls fn(row, keys[1]), fn(row, keys[2]), ... in this order: their
\* values, or the first exception
FirstRaisedOrAll(rs) ==
    IF \E i \in DOMAIN rs : rs[i].raised
    THEN rs[CHOOSE i \in DOMAIN rs : rs[i].raised /\ \A j \in 1..(i - 1) : ~rs[j].raised]
    ELSE Returned([i \in DOMAIN rs |-> rs[i].val])

\* the calls self._f(row, keys[1]), self._f(row, keys[2]), ... in this order
EachF(row, keys) == FirstRaisedOrAll([i \in DOMAIN keys |-> _f(row, keys[i])])

\* the calls self._i(row, keys[1]), self._i(row, keys[2]), ... in this order
EachI(row, keys) == FirstRaisedOrAll([i \in DOMAIN keys |-> _i(row, keys[i])])

\* Field(ge=-100, le=100) on a float
FieldInRange(v, nan_ok) ==
    IF IsFinite(v) THEN v.v >= -100 * Scale /\ v.v <= 100 * Scale ELSE v = NaN /\ nan_ok

MacroKeys == <<"c4030", "c4031", "c4010", "c4020", "e2010", "e2020", "c4032">>

MacroOf(v, inflation_1y, nan_ok) ==
    IF ~FieldInRange(inflation_1y, nan_ok) THEN Raised("ValidationError")
    ELSE Returned([inflation_1y |-> inflation_1y, inflation_3y |-> v[2],
                   inflation_perception_12m |-> v[3], inflation_uncertainty |-> v[4],
                   econ_growth_12m |-> v[5], interest_rate_exp |-> v[6],
                   unemployment_percept |-> v[7]])

MacroFrom(f, nan_ok) ==
    IF f.raised THEN f ELSE MacroOf(f.val, Or(f.val[1], Float(0)), nan_ok)

BuildMacro(row, nan_ok) == MacroFrom(EachF(row, MacroKeys), nan_ok)

ConsumptionKeys ==
    <<"c1150_4", "c1150_5", "c1150_6", "c1150_7", "c1150_8",
      "c1150_1", "c1150_2", "c1150_3", "c1220",
      "c1150_4", "c1150_5", "c1150_6", "c1150_7", "c1150_8">>

\* cons_raw is computed first and not used
ConsumptionFrom(f) ==
    IF f.raised THEN f
    ELSE Returned([income_growth |-> f.val[6], spending_growth |-> f.val[7],
                   major_purchases_intent |-> f.val[8], savings_growth |-> f.val[9],
                   tax_exp |-> f.val[10], public_svc_exp |-> f.val[11],
                   housing_costs_exp |-> f.val[12], energy_exp |-> f.val[13],
                   food_exp |-> f.val[14]])

BuildConsumption(row) == ConsumptionFrom(EachF(row, ConsumptionKeys))

\* str(n) of an int
RECURSIVE NatStr(_)
NatStr(n) == IF n < 10 THEN <<Digits[n + 1]>> ELSE NatStr(n \div 10) \o <<Digits[(n % 10) + 1]>>
SignedStr(n) == IF n < 0 THEN <<"-">> \o NatStr(-n) ELSE NatStr(n)

\* EmploymentStatus(value): the member with that value, or a ValueError
EnumLookup(value) ==
    IF \E name \in DOMAIN EmploymentStatus : EmploymentStatus[name] = value
    THEN Returned(Str(value)) ELSE Raised("ValueError")

\* lines 167-173: only ValueError and TypeError fall back to UNKNOWN
Unknown == Returned(Str(EmploymentStatus["UNKNOWN"]))

\* str(round(x)) looked up in the enumeration; only ValueError and
\* TypeError fall back to UNKNOWN
EmpOfRounded(n) ==
    IF n.raised THEN (IF n.error = "ValueError" THEN Unknown ELSE n)
    ELSE IF EnumLookup(SignedStr(n.val.v)).raised THEN Unknown
    ELSE EnumLookup(SignedStr(n.val.v))

EmpOfText(raw_emp, p) ==
    IF raw_emp = <<>> THEN EnumLookup(EmploymentStatus["UNKNOWN"])
    ELSE IF ~p.ok THEN Unknown
    ELSE EmpOfRounded(IntRound(p.val))

EmpOfCell(cell) ==
    IF IsNone(cell) THEN Raised("AttributeError")
    ELSE EmpOfText(Strip(cell.s), ParseFloat(Strip(cell.s)))

EmpStatus(row) == EmpOfCell(RowGet(row, "emp_status"))

LaborKeys == <<"p1410_1", "p1410_2", "p1410_3", "p1410_4", "p1410_5">>

LaborFrom(emp_status_enum, f) ==
    IF emp_status_enum.raised THEN emp_status_enum
    ELSE IF f.raised THEN f
    ELSE Returned([job_loss_prob |-> f.val[1], job_find_prob |-> f.val[2],
                   prob_working_after_70 |-> f.val[3], prob_inc_increase |-> f.val[4],
                   prob_leaving_labor_market |-> f.val[5],
                   employment_status |-> emp_status_enum.val])

BuildLabor(row) == LaborFrom(EmpStatus(row), EachF(row, LaborKeys))

\* the columns of the row in the order of the header
Header ==
    <<"Date", "wgt", "emp_status">> \o MacroKeys
    \o [j \in 1..8 |-> Key("c1150_", j)] \o <<"c1220">> \o LaborKeys
    \o <<"c3220", "c3210">> \o [j \in 1..8 |-> Key("c3250_", j)]
    \o [j \in 1..10 |-> Key("c3251_", j)] \o [j \in 1..9 |-> Key("x1040_", j)]
    \o [j \in 1..10 |-> Key("c2151_", j)] \o [j \in 1..10 |-> Key("c2150_", j)]
    \o <<"c1010", "c1020", "c2110", "c2120">> \o [j \in 1..3 |-> Key("c8010_", j)]
    \o [j \in 1..5 |-> Key("c8011_", j)] \o <<"x6020", "c1150_1_q", "c4030_nr">>

IsAssetKey(k) == KeyContains(k, "c3250") \/ KeyContains(k, "c3251")

\* the keys of the row, in header order, that name an asset column
RECURSIVE AssetKeys(_, _)
AssetKeys(row, ks) ==
    IF ks = <<>> THEN <<>>
    ELSE (IF Head(ks) \in DOMAIN row /\ IsAssetKey(Head(ks)) THEN <<Head(ks)>> ELSE <<>>)
         \o AssetKeys(row, Tail(ks))

HousingKeys ==
    <<"c3220", "c3210", "c3250_1", "c3250_2", "c3250_3", "c3250_4", "c3250_5", "c3250_6",
      "c3250_7", "c3250_8", "c3251_9", "c3251_10">>

OtherFinancialKeys == [j \in 1..8 |-> Key("c3251_", j)]

\* assets_raw is computed first and not used
KeptItems(keys, o) ==
    Dict([k \in {keys[j] : j \in {j \in DOMAIN o : ~IsNone(o[j])}} |->
             o[CHOOSE j \in DOMAIN o : keys[j] = k]])

HousingFrom(assets_raw, f, other) ==
    IF assets_raw.raised THEN assets_raw
    ELSE IF f.raised THEN f
    ELSE IF other.raised THEN other
    ELSE Returned(
            [house_price_exp |-> f.val[1], buy_home_conditions |-> f.val[2],
             cash_savings |-> f.val[3], life_insurance |-> f.val[4],
             pension_funds |-> f.val[5], mutual_funds |-> f.val[6],
             public_bonds |-> f.val[7], corp_bonds |-> f.val[8], stocks |-> f.val[9],
             business_equity |-> f.val[10], crypto_assets |-> f.val[11],
             precious_metals |-> f.val[12],
             other_financial_details |-> KeptItems(OtherFinancialKeys, other.val)])

BuildHousing(row) ==
    HousingFrom(EachF(row, AssetKeys(row, Header)),
                EachF(row, HousingKeys), EachF(row, OtherFinancialKeys))

\* row.get(key): the cell as it is, None when the column is missing
RowGetRaw(row, key) == IF key \in DOMAIN row THEN row[key] ELSE NoneV

\* lines 211-221: the nine attributes take the cells unconverted
BuildOccupation(row) ==
    [edu_level |-> RowGetRaw(row, "x1040_1"), employment_sector |-> RowGetRaw(row, "x1040_2"),
     occupation_type |-> RowGetRaw(row, "x1040_3"), industry |-> RowGetRaw(row, "x1040_4"),
     hours_worked |-> RowGetRaw(row, "x1040_5"), firm_size |-> RowGetRaw(row, "x1040_6"),
     contract_type |-> RowGetRaw(row, "x1040_7"), tenure |-> RowGetRaw(row, "x1040_8"),
     public_private |-> RowGetRaw(row, "x1040_9")]

MaxMembers == 10

MemberKeys == [n \in 1..(2 * MaxMembers) |->
                  IF n % 2 = 1 THEN Key("c2151_", (n + 1) \div 2) ELSE Key("c2150_", n \div 2)]

RECURSIVE MembersSwapped(_, _)
MembersSwapped(v, m_idx) ==
    IF m_idx > MaxMembers THEN <<>>
    ELSE LET age_val == v[2 * m_idx]
             rel_val == v[2 * m_idx - 1]
         IN (IF ~IsNone(age_val) \/ ~IsNone(rel_val)
             THEN <<HouseholdMember(m_idx, age_val, rel_val)>> ELSE <<>>)
            \o MembersSwapped(v, m_idx + 1)

\* lines 223-234: v holds the coerced cells of c2151_1, c2150_1, c2151_2, ...
RECURSIVE MembersFrom(_, _)
MembersFrom(v, m_idx) ==
    IF m_idx > MaxMembers THEN <<>>
    ELSE LET age_val == v[2 * m_idx - 1]
             rel_val == v[2 * m_idx]
         IN (IF ~IsNone(age_val) \/ ~IsNone(rel_val)
             THEN <<HouseholdMember(m_idx, age_val, rel_val)>> ELSE <<>>)
            \o MembersFrom(v, m_idx + 1)

DemographicsKeys == <<"c1010", "c1020", "c2110", "c2120">>

DemographicsFrom(occ, members, f) ==
    IF members.raised THEN members
    ELSE IF f.raised THEN f
    ELSE Returned([gender |-> f.val[1], age_group |-> f.val[2],
                   household_size |-> f.val[3], num_children |-> f.val[4],
                   occupation |-> occ,
                   household_members |->
                       [t |-> "list", elems |-> MembersFrom(members.val, 1)]])

BuildDemographics(row) ==
    DemographicsFrom(BuildOccupation(row), EachF(row, MemberKeys),
                     EachI(row, DemographicsKeys))

CreditRawKeys == <<"c8011_2", "c8011_4", "c8011_5">>
CreditKeys == <<"c8010_1", "c8010_2", "c8010_3", "c8011_1", "c8011_3">>

\* the dataclass has no field debt_details: the keyword is dropped
CreditFrom(f) ==
    IF f.raised THEN f
    ELSE Returned([CreditDebtModule EXCEPT !.mortgage_access = f.val[1],
                                           !.consumer_credit_access = f.val[2],
                                           !.bank_loan_apply = f.val[3],
                                           !.credit_constraint_flag = f.val[4],
                                           !.loan_repayment_struggle = f.val[5]])

BuildCredit(row) == CreditFrom(EachF(row, CreditKeys))

\* the parts of str between the occurrences of sep
RECURSIVE SplitOn(_, _)
SplitOn(str, sep) ==
    LET pos == FirstPos(str, {sep}) IN
    IF pos = 0 THEN <<str>>
    ELSE <<SubSeq(str, 1, pos - 1)>> \o SplitOn(SubSeq(str, pos + 1, Len(str)), sep)

IsAllDigits(str) == str # <<>> /\ \A i \in DOMAIN str : IsDigit(str[i])

IsLeap(y) == (y % 4 = 0 /\ y % 100 # 0) \/ y % 400 = 0
DaysIn(y, m) ==
    IF m = 2 THEN (IF IsLeap(y) THEN 29 ELSE 28)
    ELSE IF m \in {4, 6, 9, 11} THEN 30 ELSE 31

\* datetime.strptime(text, "%Y-%m-%d").date(): four digits, one or two,
\* one or two (the day also as a blank and a digit), naming a day that exists
ParseDate(cell) ==
    IF IsNone(cell) THEN Raised("TypeError")
    ELSE LET parts == SplitOn(cell.s, "-")
             dpart == IF Len(parts) = 3 /\ Len(parts[3]) = 2 /\ parts[3][1] = " "
                      THEN Tail(parts[3]) ELSE IF Len(parts) = 3 THEN parts[3] ELSE <<>>
             shaped == /\ Len(parts) = 3
                       /\ Len(parts[1]) = 4 /\ IsAllDigits(parts[1])
                       /\ Len(parts[2]) \in {1, 2} /\ IsAllDigits(parts[2])
                       /\ Len(dpart) \in {1, 2} /\ IsAllDigits(dpart)
                       /\ Len(parts[3]) <= 2
             y == DigitsValue(parts[1])
             m == DigitsValue(parts[2])
             d == DigitsValue(dpart)
         IN IF shaped /\ y >= 1 /\ m \in 1..12 /\ d >= 1 /\ d <= DaysIn(y, m)
            THEN Returned(Date(y, m, d)) ELSE Raised("ValueError")

SentimentMarkers == {"x6020", "h2020", "c60", "x8020", "x8110"}
IsSentimentKey(k) == \E x \in SentimentMarkers : KeyContains(k, x)
IsQuarterlyKey(k) == KeyEndsWith(k, "_q")
IsQualityKey(k) == KeyEndsWith(k, "_nr")

\* {k: row[k] for k in row if ...}, for the keys the condition keeps
RowSlice(row, keys) == Dict([k \in keys |-> row[k]])

\* lines 138-279: the observation built from row number i, or the
\* exception that ends the load
Validated(made) == IF made.ok THEN Returned(made.obs) ELSE Raised(made.error)

ObservationFrom(i, row, macro, cons, labor, housing, demo, credit_raw, observation_date, credit, wgt, nan_ok) ==
    IF macro.raised THEN macro
    ELSE IF cons.raised THEN cons
    ELSE IF labor.raised THEN labor
    ELSE IF housing.raised THEN housing
    ELSE IF demo.raised THEN demo
    ELSE IF credit_raw.raised THEN credit_raw
    ELSE IF observation_date.raised THEN observation_date
    ELSE IF credit.raised THEN credit
    ELSE IF wgt.raised THEN wgt
    ELSE Validated(CESObservation(
            [id |-> Num(i), observation_date |-> observation_date.val,
             macro |-> macro.val, consumption |-> cons.val, labor |-> labor.val,
             housing |-> housing.val, credit |-> credit.val, demographics |-> demo.val,
             survey_weight |-> Or(wgt.val, Float(1)),
             sentiment_flags |-> RowSlice(row, {k \in DOMAIN row : IsSentimentKey(k)}),
             quarterly_data |-> RowSlice(row, {k \in DOMAIN row : IsQuarterlyKey(k)}),
             quality_audit |-> RowSlice(row, {k \in DOMAIN row : IsQualityKey(k)})], nan_ok))

\* row["Date"] parsed
DateOf(row) == IF "Date" \in DOMAIN row THEN ParseDate(row["Date"]) ELSE Raised("KeyError")

BuildObservation(i, row, nan_ok) ==
    ObservationFrom(i, row, BuildMacro(row, nan_ok), BuildConsumption(row), BuildLabor(row),
                    BuildHousing(row), BuildDemographics(row),
                    EachF(row, CreditRawKeys), DateOf(row), BuildCredit(row),
                    _f(row, "wgt"), nan_ok)

----------------------------------------------------------------------------
(* Loading a file *)

MaxRows == 2         \* rows in a file

Blank == Str(<<>>)

\* every column present and blank
BlankRow == [k \in {Header[n] : n \in DOMAIN Header} |-> Blank]

LoadDates == {<<"2", "0", "1", "5", "-", "0", "6", "-", "1", "5">>, <<"2", "0", "0", "0", "-", "6", "-", "1">>, <<"1", "9", "9", "9", "-", "1", "2", "-", "3", "1">>, <<"2", "0", "1", "5", "-", "0", "2", "-", "3", "0">>, <<>>}
LoadColumns == {"c4030", "wgt", "emp_status", "x1040_1", "c2151_1", "c1010", "c3251_1", "x6020"}
LoadCells ==
    {Str(<<"2", ".", "5">>), Str(<<"a", "b", "c">>), Str(<<"i", "n", "f">>),
     Str(<<"n", "a", "n">>), NoValue}

LoadRows ==
    {[BlankRow EXCEPT !["Date"] = Str(d)] : d \in LoadDates}
    \cup {[BlankRow EXCEPT !["Date"] = Str(<<"2", "0", "1", "5", "-", "0", "6", "-", "1", "5">>), ![k] = c] :
             k \in LoadColumns, c \in LoadCells}

LoadFiles == UNION {[1..n -> LoadRows] : n \in 0..MaxRows}

\* lines 129-134: the file is read and split into rows
OpenFile ==
    /\ out = NoCall
    /\ rows = <<>>
    /\ data = <<>>
    /\ \E file \in LoadFiles : rows' = file
    /\ out' = [op |-> "load", status |-> "running", observations |-> <<>>]
    /\ UNCHANGED <<data, built, res, tasks, queue, worker>>

LoadedRowSkipping(obs) ==
    IF obs.raised THEN [out EXCEPT !.observations = Append(@, NoneV)]
    ELSE [out EXCEPT !.observations = Append(@, obs.val)]

\* observations.append(obs), unless building obs raised
LoadedRow(obs) ==
    IF obs.raised
    THEN [op |-> "load", status |-> "raised", error |-> obs.error,
          observations |-> out.observations]
    ELSE [out EXCEPT !.observations = Append(@, obs.val)]

\* lines 137-279: one iteration; an exception ends the call
LoadRow ==
    /\ out # NoCall
    /\ out.op = "load" /\ out.status = "running"
    /\ Len(out.observations) < Len(rows)
    /\ \E nan_ok \in NanOutcomes :
           out' = LoadedRow(BuildObservation(Len(out.observations),
                                             rows[Len(out.observations) + 1], nan_ok))
    /\ UNCHANGED <<data, built, res, rows, tasks, queue, worker>>

\* line 282 and main.py line 19: the list is returned and becomes data
LoadReturn ==
    /\ out # NoCall
    /\ out.op = "load" /\ out.status = "running"
    /\ Len(out.observations) = Len(rows)
    /\ out' = [out EXCEPT !.status = "returned"]
    /\ data' = out.observations
    /\ UNCHANGED <<built, res, rows, tasks, queue, worker>>

NextLoad ==
    \/ OpenFile
    \/ LoadRow
    \/ LoadReturn

SpecLoad == InitEngine /\ [][NextLoad]_vars

\* the row has a date the loader accepts and every other column blank
IsBlankRow(row) ==
    /\ DOMAIN row = DOMAIN BlankRow
    /\ \A k \in DOMAIN row \ {"Date"} : row[k] = Blank
    /\ ~ParseDate(row["Date"]).raised
    /\ validate_date_range(ParseDate(row["Date"]).val)

OptionalFieldsAbsent(module, except) ==
    \A field \in DOMAIN module \ except : IsNone(module[field])

\* C9: a row with a valid Date and every other column blank loads as an
\* observation whose optional fields, the nine OccupationalProfile
\* attributes included, are all None, whose household_members and detail
\* maps are empty, whose employment_status is UNKNOWN, whose survey_weight
\* is 1.0 and whose macro.inflation_1y is 0.0.
C9_BlankRowLoadsAsDefaults ==
    (out # NoCall /\ out.op = "load") =>
        \A n \in DOMAIN out.observations :
            IsBlankRow(rows[n]) =>
                LET obs == out.observations[n] IN
                /\ OptionalFieldsAbsent(obs.macro, {"inflation_1y"})
                /\ obs.macro.inflation_1y = Float(0)
                /\ OptionalFieldsAbsent(obs.consumption, {})
                /\ OptionalFieldsAbsent(obs.labor, {"employment_status"})
                /\ obs.labor.employment_status = Str(EmploymentStatus["UNKNOWN"])
                /\ OptionalFieldsAbsent(obs.housing, {"other_financial_details"})
                /\ obs.housing.other_financial_details = Dict(EmptyMap)
                /\ OptionalFieldsAbsent(obs.credit, {"debt_details"})
                /\ HasAttr(obs.credit, "debt_details") =>
                       obs.credit.debt_details = Dict(EmptyMap)
                /\ OptionalFieldsAbsent(obs.demographics, {"occupation", "household_members"})
                /\ OptionalFieldsAbsent(obs.demographics.occupation, {})
                /\ obs.demographics.household_members.elems = <<>>
                /\ obs.survey_weight = Float(1)

\* the same with the OccupationalProfile attributes as the loader leaves
\* them: the blank cells themselves
C9_BlankRowOccupationIsBlank ==
    (out # NoCall /\ out.op = "load") =>
        \A n \in DOMAIN out.observations :
            IsBlankRow(rows[n]) =>
                LET obs == out.observations[n] IN
                /\ obs.macro = MacroModule
                /\ obs.consumption = ConsumptionModule
                /\ obs.labor = LaborModule
                /\ obs.housing = HousingWealthModule
                /\ obs.credit = CreditDebtModule
                /\ \A field \in DOMAIN obs.demographics.occupation :
                       obs.demographics.occupation[field] = Blank
                /\ obs.demographics.household_members.elems = <<>>
                /\ obs.survey_weight = Float(1)

----------------------------------------------------------------------------
(* engine.py: run_analysis.  The coroutine submits strategy.compute(data)  *)
(* to the engine's ThreadPoolExecutor and awaits the future; a pool thread *)
(* takes the work item from the queue, runs it and sets the future; the   *)
(* event loop then resumes the coroutine with the future's result.        *)

MaxWorkers == 4      \* ThreadPoolExecutor(max_workers=4)
NumTasks == 5        \* run_analysis calls in one run

Workers == 1..MaxWorkers
Idle == 0

\* where a computation ran
CallerThread == "caller"
PoolThread == "pool"

\* the strategies main gathers
PoolPaths ==
    <<"macro.inflation_1y", "consumption.income_growth", "labor.job_loss_prob",
      "housing.house_price_exp">>

PathOf(t) == PoolPaths[((t - 1) % Len(PoolPaths)) + 1]

\* an observation of weight 1, valid whatever the bounds do with NaN
PoolObservation(id, value) ==
    CESObservation(ObservationArgs(id, Date(2024, 1, 1), MacroModule,
                                   [ConsumptionModule EXCEPT !.income_growth = value],
                                   LaborModule, Num(1), EmptyMap), TRUE).obs

PoolCollections == {<<PoolObservation(1, Num(1)), PoolObservation(2, NoneV)>>}

Pending == [done |-> FALSE, result |-> NoneV, thread |-> CallerThread]

InitPool ==
    /\ data \in PoolCollections
    /\ built = NoCall
    /\ res = NoCall
    /\ rows = <<>>
    /\ out = NoCall
    /\ tasks = NoTasks
    /\ queue = <<>>
    /\ worker = [w \in Workers |-> Idle]

\* the observations up to a year
RECURSIVE GroupUpToYear(_, _)
GroupUpToYear(d, year) ==
    IF d = <<>> THEN <<>>
    ELSE (IF Head(d).observation_date.year.v <= year THEN <<Head(d)>> ELSE <<>>)
         \o GroupUpToYear(Tail(d), year)

\* grouped[year] of get_yearly_report: the observations of the year, in
\* the order of the collection
RECURSIVE GroupOfYear(_, _)
GroupOfYear(d, year) ==
    IF d = <<>> THEN <<>>
    ELSE (IF Head(d).observation_date.year.v = year THEN <<Head(d)>> ELSE <<>>)
         \o GroupOfYear(Tail(d), year)

\* The list object a work item is handed.  run_in_executor keeps the
\* argument it is given, a reference and not a copy: the caller's list
\* itself, or the list get_yearly_report has built for one year.
CallerList == [obj |-> "data"]
YearList(year) == [obj |-> "grouped", year |-> year]

\* the content of the list object when it is read
ListAt(ref) == IF ref = CallerList THEN data ELSE GroupOfYear(data, ref.year)

\* strategy.compute(data) of task t, reading the list it was handed
Compute(t) == GenericMeanStrategy(ListAt(tasks[t].arg), tasks[t].path)

\* the awaited future is done
FutureDoneEarly(t) == TRUE
FutureDone(t) == tasks[t].future.done

\* lines 65-67: the coroutine submits the work item and suspends
Dispatch ==
    /\ \E t \in 1..NumTasks :
        /\ t = Cardinality(DOMAIN tasks) + 1
        /\ tasks' = tasks @@ (t :> [pc |-> "awaiting", path |-> PathOf(t), arg |-> CallerList,
                                    future |-> Pending, received |-> NoneV,
                                    behind |-> \A w \in Workers : worker[w] # Idle])
        /\ queue' = Append(queue, t)
    /\ UNCHANGED <<data, built, res, rows, out, worker>>

\* a pool thread takes the oldest work item; the threads being alike, the
\* first idle one stands for whichever does
Take(w) ==
    /\ worker[w] = Idle
    /\ \A v \in 1..(w - 1) : worker[v] # Idle
    /\ queue # <<>>
    /\ worker' = [worker EXCEPT ![w] = Head(queue)]
    /\ queue' = Tail(queue)
    /\ UNCHANGED <<data, built, res, rows, out, tasks>>

\* the pool thread runs the work item to its end and sets the future
Finish(w) ==
    /\ worker[w] # Idle
    /\ tasks' = [tasks EXCEPT ![worker[w]].future =
                     [done |-> TRUE, result |-> Compute(worker[w]), thread |-> PoolThread]]
    /\ worker' = [worker EXCEPT ![w] = Idle]
    /\ UNCHANGED <<data, built, res, rows, out, queue>>

\* the event loop resumes the coroutine, which returns the future's result
Resume(t) ==
    /\ t \in DOMAIN tasks
    /\ tasks[t].pc = "awaiting"
    /\ FutureDone(t)
    /\ tasks' = [tasks EXCEPT ![t].pc = "done", ![t].received = tasks[t].future.result]
    /\ UNCHANGED <<data, built, res, rows, out, queue, worker>>

TakeWork == \E w \in Workers : Take(w)
FinishWork == \E w \in Workers : Finish(w)
ResumeCaller == \E t \in 1..NumTasks : Resume(t)

NextPool ==
    \/ Dispatch
    \/ TakeWork
    \/ FinishWork
    \/ ResumeCaller

\* the pool threads keep running (queued work is taken, running work ends)
\* and the event loop keeps running its ready callbacks
SpecPool ==
    /\ InitPool
    /\ [][NextPool]_vars
    /\ WF_vars(TakeWork)
    /\ WF_vars(FinishWork)
    /\ WF_vars(ResumeCaller)

RanOnWorker(t) == tasks[t].future.done => tasks[t].future.thread = PoolThread

ResumedAfterCompletion(t) ==
    tasks[t].pc = "done" =>
        /\ tasks[t].future.done
        /\ tasks[t].received = GenericMeanStrategy(data, PathOf(t))

\* every computation dispatched so far has completed and its caller resumed;
\* a completed one stays so, hence each dispatched computation completes
\* exactly if this holds again and again
AllCompleted == \A t \in DOMAIN tasks : tasks[t].pc = "done"

\* C10: every run_analysis call runs compute on a pool worker and never on
\* the caller, the caller resumes only after the computation has finished
\* and with exactly the value compute returned, and every dispatched
\* computation eventually completes, also when more are dispatched than
\* the pool has workers.
C10_RunAnalysis ==
    /\ [](\A t \in DOMAIN tasks : RanOnWorker(t) /\ ResumedAfterCompletion(t))
    /\ []<>AllCompleted

\* a computation submitted while every worker was busy has completed and
\* its caller has resumed
C10_Witness ==
    \E t \in DOMAIN tasks :
        /\ tasks[t].behind
        /\ tasks[t].pc = "done"
        /\ tasks[t].future.thread = PoolThread
        /\ NumTasks > MaxWorkers

----------------------------------------------------------------------------
(* Path resolution, observation by observation.  The observations differ  *)
(* in consumption.income_growth and in their sentiment_flags.             *)

\* <<consumption.income_growth, sentiment_flags>> of a constructed observation
ResolveValues ==
    {<<NoneV, EmptyMap>>,
     <<Num(2), EmptyMap>>,
     <<NoneV, "consumption.income_growth" :> Num(5)>>,
     <<NoneV, "x6020_1" :> Num(3)>>,
     <<NoneV, ("x6020" :> Num(4)) @@ ("x6020_1" :> Num(3))>>,
     <<NoneV, ("x6020" :> Str(<<"a">>)) @@ ("x6020_1" :> Num(3))>>,
     <<NoneV, ("x6020" :> NoneV) @@ ("x6020_1" :> Num(3))>>,
     <<NoneV, "macro.c4030" :> Num(1)>>}

ResolvePaths ==
    {"consumption.income_growth", "x6020", "macro.c4030", "macro", "labor.employment_status"}

ConstructFlagged ==
    \E gf \in ResolveValues :
        Construct(ObservationArgs(Len(data) + 1, Date(2024, 1, 1), MacroModule,
                                  [ConsumptionModule EXCEPT !.income_growth = gf[1]],
                                  LaborModule, Num(1), gf[2]))

\* compute(data), with what lines 18-31 resolve and append for each observation
ResolvePath ==
    \E path \in ResolvePaths :
        Call([op |-> "resolve", path |-> path,
              resolved |-> [i \in DOMAIN data |-> ResolveValue(data[i], path)],
              appended |-> [i \in DOMAIN data |-> Contribution(data[i], path)],
              value |-> GenericMeanStrategy(data, path)])

NextResolve ==
    \/ ConstructFlagged
    \/ ResolvePath
    \/ Return

SpecResolve == InitEngine /\ [][NextResolve]_vars

\* the value of sentiment_flags under the path if that key is there, else
\* under the path with "_1" appended, else None
FlagUnderPath(flags, path) ==
    IF path \in DOMAIN flags.items THEN flags.items[path]
    ELSE IF (path \o "_1") \in DOMAIN flags.items THEN flags.items[path \o "_1"]
    ELSE NoneV

\* the same, a key holding None counting as not there
FlagNotNone(flags, path) ==
    IF path \in DOMAIN flags.items /\ ~IsNone(flags.items[path]) THEN flags.items[path]
    ELSE IF (path \o "_1") \in DOMAIN flags.items THEN flags.items[path \o "_1"]
    ELSE NoneV

AllSegmentsExist(obs, path) == Walk(obs, Split(path)).ok

C11_PathResolutionNoneAsAbsent ==
    res.op = "resolve" =>
        /\ \A i \in DOMAIN data :
               LET expected == IF AllSegmentsExist(data[i], res.path)
                               THEN Walk(data[i], Split(res.path)).val
                               ELSE FlagNotNone(data[i].sentiment_flags, res.path)
               IN /\ res.resolved[i] = expected
                  /\ res.appended[i] = IF IsNumeric(expected) THEN <<expected.v>> ELSE <<>>
        /\ LET n == Cardinality({i \in DOMAIN data : res.appended[i] # <<>>})
           IN IF n = 0 THEN FracEq(res.value, Zero)
              ELSE res.value.n * n =
                       SumFn([i \in {j \in DOMAIN data : res.appended[j] # <<>>} |->
                                 res.appended[i][1]]) * res.value.d

----------------------------------------------------------------------------
(* Loading small files whose rows differ in the date, the weight, the     *)
(* inflation and the household member cells                               *)

ValidDate == <<"2", "0", "1", "5", "-", "0", "6", "-", "1", "5">>

\* a row with every column of the header, the cells given and the others
\* blank, dated validly unless a Date cell is given
RowWith(cells) ==
    [k \in DOMAIN BlankRow |->
        IF k \in DOMAIN cells THEN Str(cells[k])
        ELSE IF k = "Date" THEN Str(ValidDate) ELSE Blank]

\* a row of a file whose header lacks the column
RowWithout(column) == [k \in DOMAIN BlankRow \ {column} |-> RowWith(EmptyMap)[k]]

IngestRows ==
    {RowWith(EmptyMap),
     RowWith("Date" :> <<"1", "9", "9", "9", "-", "1", "2", "-", "3", "1">>),
     RowWith("Date" :> <<>>),
     RowWithout("Date"),
     RowWith("wgt" :> <<"-", "2", ".", "5">>),
     RowWith("wgt" :> <<"0">>),
     RowWith("wgt" :> <<"a", "b", "c">>),
     RowWith("wgt" :> <<"2", ".", "5">>),
     RowWithout("wgt"),
     RowWith("c4030" :> <<"2", "5", "0">>),
     RowWith(("c2151_1" :> <<"2", ".", "5">>) @@ ("c2150_1" :> <<"a", "b", "c">>)),
     RowWith(("c2150_2" :> <<"1", ".", "5">>) @@ ("c2151_10" :> <<"7">>) @@ ("c2150_10" :> <<"3">>)),
     RowWith(("c2151_1" :> <<"0">>) @@ ("c2150_1" :> <<"n", "o", "n", "e">>) @@ ("c2151_2" :> <<"a", "b", "c">>))}

IngestFiles == UNION {[1..n -> IngestRows] : n \in 0..MaxRows}

\* lines 129-134 on one of these files
OpenBatch ==
    /\ out = NoCall
    /\ rows = <<>>
    /\ data = <<>>
    /\ \E file \in IngestFiles : rows' = file
    /\ out' = [op |-> "load", status |-> "running", observations |-> <<>>]
    /\ UNCHANGED <<data, built, res, tasks, queue, worker>>

NextIngest ==
    \/ OpenBatch
    \/ LoadRow
    \/ LoadReturn

SpecIngest == InitEngine /\ [][NextIngest]_vars

\* the number a cell parses to, None when it holds none
CellValue(row, key) ==
    IF HoldsNoNumber(row, key) THEN NoneV ELSE ParseFloat(Strip(row[key].s)).val

\* C12: a row whose wgt cell is missing, blank or unparseable loads with
\* survey_weight 1.0; a row whose wgt cell parses to a number <= 0, zero
\* included, yields no observation; so every loaded observation carries its
\* row's parsed positive weight or the default 1.0.
C12_WeightDefaultOrPositive ==
    (out # NoCall /\ out.op = "load") =>
        \A k \in DOMAIN out.observations :
            LET w == CellValue(rows[k], "wgt") IN
            IF IsNone(w) THEN out.observations[k].survey_weight = Float(1)
            ELSE IsPositive(w) /\ out.observations[k].survey_weight = w

\* what the code does keep: a weight cell of zero takes the default as a
\* blank one does, and only a negative one fails the row
C12_ZeroWeightTakesDefault ==
    (out # NoCall /\ out.op = "load") =>
        /\ \A k \in DOMAIN out.observations :
               LET w == CellValue(rows[k], "wgt") IN
               IF IsNone(w) \/ w = Float(0) THEN out.observations[k].survey_weight = Float(1)
               ELSE IsPositive(w) /\ out.observations[k].survey_weight = w
        /\ \A k \in DOMAIN rows :
               LET w == CellValue(rows[k], "wgt") IN
               (~IsNone(w) /\ IsFinite(w) /\ w.v < 0) => k > Len(out.observations)

\* the row has no Date cell the loader can read, a year outside
\* 2000..2030, a weight the constructor refuses or an inflation outside
\* [-100, 100]
FailsConstruction(row) ==
    \/ "Date" \notin DOMAIN row
    \/ ParseDate(row["Date"]).raised
    \/ ~validate_date_range(ParseDate(row["Date"]).val)
    \/ LET w == CellValue(row, "wgt") IN ~IsNone(w) /\ IsFinite(w) /\ w.v < 0
    \/ LET x == CellValue(row, "c4030")
       IN ~IsNone(x) /\ IsFinite(x) /\ (x.v < -100 * Scale \/ x.v > 100 * Scale)

\* C13: load_all_data takes the rows in file order and is all-or-nothing:
\* when every row constructs it returns one observation per row, in row
\* order, with id the row's 0-based ordinal; when a row fails, the error
\* leaves the call at that row, no later row is processed and no list,
\* partial or otherwise, is returned.
C13_AllOrNothing ==
    (out # NoCall /\ out.op = "load") =>
        LET n == Len(out.observations) IN
        /\ n <= Len(rows)
        /\ \A k \in 1..n :
               /\ ~FailsConstruction(rows[k])
               /\ out.observations[k].id = Num(k - 1)
               /\ out.observations[k].observation_date = ParseDate(rows[k]["Date"]).val
        /\ out.status = "returned" => (n = Len(rows) /\ data = out.observations)
        /\ out.status # "returned" => data = <<>>
        /\ out.status = "raised" => (n < Len(rows) /\ FailsConstruction(rows[n + 1]))
        /\ (\A k \in DOMAIN rows : ~FailsConstruction(rows[k])) => out.status # "raised"

\* the second row of a file failed after the first had been built: the
\* call ended with the error and returned nothing
C13_Witness ==
    /\ out # NoCall /\ out.op = "load"
    /\ out.status = "raised"
    /\ Len(rows) = 2
    /\ Len(out.observations) = 1
    /\ data = <<>>

StatusOfCode(n) ==
    IF n = 1 THEN Str(EmploymentStatus["EMPLOYED"])
    ELSE IF n = 2 THEN Str(EmploymentStatus["UNEMPLOYED"])
    ELSE IF n = 3 THEN Str(EmploymentStatus["INACTIVE"])
    ELSE IF n = 4 THEN Str(EmploymentStatus["OTHER"])
    ELSE Str(EmploymentStatus["UNKNOWN"])

\* the status the emp_status cell of the row stands for
StatusOfRow(row) ==
    LET v == CellValue(row, "emp_status") IN
    IF IsNone(v) \/ ~IsFinite(v) THEN Str(EmploymentStatus["UNKNOWN"])
    ELSE StatusOfCode(RoundHalfEven(v.v, Scale))

\* C14: deriving employment_status never raises, whatever the emp_status
\* cell holds: a number rounding to 1, 2, 3 or 4 gives EMPLOYED, UNEMPLOYED,
\* INACTIVE or OTHER, and a missing column, a cell without value, a blank,
\* non-numeric or non-finite cell or an unlisted code gives UNKNOWN.
C14_EmploymentStatusNeverRaises ==
    (out # NoCall /\ out.op = "load") =>
        /\ \A k \in DOMAIN out.observations :
               out.observations[k].labor.employment_status = StatusOfRow(rows[k])
        /\ out.status = "raised" =>
               LET row == rows[Len(out.observations) + 1]
               IN ~("emp_status" \in DOMAIN row /\ IsBlankRow([row EXCEPT !["emp_status"] = Blank]))

\* what the code does keep: the same for cells that hold text which is not
\* an infinity
C14_EmploymentStatusOfText ==
    (out # NoCall /\ out.op = "load") =>
        /\ \A k \in DOMAIN out.observations :
               out.observations[k].labor.employment_status = StatusOfRow(rows[k])
        /\ out.status = "raised" =>
               LET row == rows[Len(out.observations) + 1]
               IN ("emp_status" \in DOMAIN row /\ IsBlankRow([row EXCEPT !["emp_status"] = Blank]))
                      => \/ IsNone(row["emp_status"])
                         \/ CellValue(row, "emp_status") \in {PosInf, NegInf}

----------------------------------------------------------------------------
(* main.py lines 41-47: the run_analysis coroutines gathered at once.     *)
(* asyncio.gather returns the results in the order of its arguments,      *)
(* whatever the order in which the futures complete.                      *)

Gather ==
    /\ res = NoCall
    /\ tasks # NoTasks
    /\ \A t \in DOMAIN tasks : tasks[t].pc = "done"
    /\ res' = [op |-> "gather", value |-> [t \in DOMAIN tasks |-> tasks[t].received]]
    /\ UNCHANGED <<data, built, rows, out, tasks, queue, worker>>

NextGather ==
    \/ Dispatch
    \/ TakeWork
    \/ FinishWork
    \/ ResumeCaller
    \/ Gather

SpecGather == InitPool /\ [][NextGather]_vars

\* every execution returns what its strategy returns when run alone, the
\* gathered results are in submission order, and the collection is as it was
ResultsAsWhenRunAlone ==
    /\ data \in PoolCollections
    /\ \A t \in DOMAIN tasks :
           tasks[t].future.done => tasks[t].future.result = GenericMeanStrategy(data, PathOf(t))
    /\ res.op = "gather" =>
           /\ \E n \in 1..NumTasks : DOMAIN res.value = 1..n
           /\ DOMAIN res.value \subseteq DOMAIN tasks
           /\ \A t \in DOMAIN res.value : res.value[t] = GenericMeanStrategy(data, PathOf(t))

\* C16: strategy executions dispatched concurrently over one collection
\* each return the result they return when run alone, in submission order,
\* none changes the collection, and each works on its own immutable
\* snapshot of the collection.
C16_ConcurrentOnOwnSnapshots ==
    /\ ResultsAsWhenRunAlone
    /\ \A t \in DOMAIN tasks :
           /\ tasks[t].arg # CallerList
           /\ \A u \in DOMAIN tasks \ {t} : tasks[u].arg # tasks[t].arg

\* what the code does keep: the results, their order and the unchanged
\* collection, every execution reading the caller's one list
C16_ConcurrentOnSharedList ==
    /\ ResultsAsWhenRunAlone
    /\ \A t \in DOMAIN tasks : tasks[t].arg = CallerList

----------------------------------------------------------------------------
(* engine.py: the reports.  DemographicsQualityStrategy, get_time_series   *)
(* and get_yearly_report over collections that differ in date, values and  *)
(* demographics.                                                           *)

\* bool(v) is False: None, an empty string, a zero, an empty list
Falsy(v) ==
    \/ IsNone(v)
    \/ v.t = "str" /\ v.s = <<>>
    \/ v.t = "num" /\ v = Num(0)
    \/ v.t = "list" /\ v.elems = <<>>

QualityKeys == {"Gender", "Age Group", "Household Size", "Education Info", "Household Members"}

\* the five tests of the loop (lines 47-51)
IsMissing(obs, k) ==
    CASE k = "Gender" -> IsNone(obs.demographics.gender)
      [] k = "Age Group" -> IsNone(obs.demographics.age_group)
      [] k = "Household Size" -> IsNone(obs.demographics.household_size)
      [] k = "Education Info" -> Falsy(obs.demographics.occupation.edu_level)
      [] k = "Household Members" -> Falsy(obs.demographics.household_members)

\* missing_counts[k] after the loop
RECURSIVE MissingCount(_, _)
MissingCount(d, k) ==
    IF d = <<>> THEN 0
    ELSE (IF IsMissing(Head(d), k) THEN 1 ELSE 0) + MissingCount(Tail(d), k)

\* DemographicsQualityStrategy.compute: (v / total_records) * 100 per key;
\* the division raises when total_records is 0
DemographicsQualityStrategy(d) ==
    IF Len(d) = 0 THEN Raised("ZeroDivisionError")
    ELSE Returned([k \in QualityKeys |-> Frac(MissingCount(d, k) * 100, Len(d))])

\* date.__lt__: by year, then month, then day
DateBefore(a, b) ==
    \/ a.year.v < b.year.v
    \/ a.year.v = b.year.v /\ a.month.v < b.month.v
    \/ a.year.v = b.year.v /\ a.month.v = b.month.v /\ a.day.v < b.day.v

\* sorted(date_groups.keys())
RECURSIVE SortedDates(_)
SortedDates(S) ==
    IF S = {} THEN <<>>
    ELSE LET lo == CHOOSE a \in S : \A b \in S \ {a} : DateBefore(a, b)
         IN <<lo>> \o SortedDates(S \ {lo})

\* the observations of the month of a date, whatever the day
RECURSIVE ObservationsInMonth(_, _)
ObservationsInMonth(d, date) ==
    IF d = <<>> THEN <<>>
    ELSE (IF /\ Head(d).observation_date.year = date.year
             /\ Head(d).observation_date.month = date.month
          THEN <<Head(d)>> ELSE <<>>)
         \o ObservationsInMonth(Tail(d), date)

\* date_groups[d]: the observations of exactly this date, in the order of
\* the collection
RECURSIVE ObservationsOn(_, _)
ObservationsOn(d, date) ==
    IF d = <<>> THEN <<>>
    ELSE (IF Head(d).observation_date = date THEN <<Head(d)>> ELSE <<>>)
         \o ObservationsOn(Tail(d), date)

\* zero padding on the left, to a width
PadLeft(ds, n) == IF Len(ds) >= n THEN ds ELSE [i \in 1..(n - Len(ds)) |-> "0"] \o ds

\* d.strftime("%Y-%m"): the year on four digits, the month on two
StrfYearMonth(date) ==
    Str(PadLeft(IntStr(date.year.v), 4) \o <<"-">> \o TwoDigits(date.month.v))

\* process() of get_time_series
get_time_series(d, attr_path) ==
    LET sorted_dates == SortedDates({d[i].observation_date : i \in DOMAIN d}) IN
    [x_axis |-> [i \in DOMAIN sorted_dates |-> StrfYearMonth(sorted_dates[i])],
     y_axis |-> [i \in DOMAIN sorted_dates |->
                    GenericMeanStrategy(ObservationsOn(d, sorted_dates[i]), attr_path)]]

\* the keys of grouped, in the order a dict keeps: first appearance
RECURSIVE GroupedYears(_, _)
GroupedYears(d, seen) ==
    IF d = <<>> THEN <<>>
    ELSE LET year == Head(d).observation_date.year.v IN
         IF year \in seen THEN GroupedYears(Tail(d), seen)
         ELSE <<year>> \o GroupedYears(Tail(d), seen \cup {year})

----------------------------------------------------------------------------
(* Collections for the reports *)

FullDemographics ==
    [DemographicsModule EXCEPT
        !.gender = Num(1), !.age_group = Num(2), !.household_size = Num(3),
        !.occupation = [OccupationalProfile EXCEPT !.edu_level = Str(<<"3">>)],
        !.household_members = [t |-> "list", elems |-> <<HouseholdMember(1, Num(40), Num(1))>>]]

BlankEducation ==
    [FullDemographics EXCEPT
        !.age_group = NoneV,
        !.occupation = [OccupationalProfile EXCEPT !.edu_level = Str(<<>>)]]

\* <<date, macro.inflation_1y, consumption.income_growth, demographics>>
ReportKinds ==
    {<<Date(2023, 12, 1), Num(2), NoneV, DemographicsModule>>,
     <<Date(2023, 12, 1), Num(4), Num(4), FullDemographics>>,
     <<Date(2024, 1, 1), Num(4), Num(1), DemographicsModule>>,
     <<Date(2024, 1, 15), Num(0), NoneV, FullDemographics>>,
     <<Date(2024, 1, 15), Num(4), Num(4), BlankEducation>>,
     <<Date(2022, 3, 1), Num(2), Num(1), DemographicsModule>>}

ReportObservation(id, kind) ==
    [CESObservation(ObservationArgs(id, kind[1], [MacroModule EXCEPT !.inflation_1y = kind[2]],
                                    [ConsumptionModule EXCEPT !.income_growth = kind[3]],
                                    LaborModule, Num(1), EmptyMap), TRUE).obs
        EXCEPT !.demographics = kind[4]]

ReportCollections ==
    UNION {{[i \in 1..n |-> ReportObservation(i, kinds[i])] : kinds \in [1..n -> ReportKinds]}
              : n \in 0..MaxObs}

SeriesPaths == {"macro.inflation_1y", "consumption.income_growth"}

InitReports ==
    /\ data \in ReportCollections
    /\ built = NoCall
    /\ res = NoCall
    /\ rows = <<>>
    /\ out = NoCall
    /\ tasks = NoTasks
    /\ queue = <<>>
    /\ worker = [w \in Workers |-> Idle]

\* run_quality_report: the strategy's compute over the collection
RunQualityReport ==
    Call([op |-> "quality", result |-> DemographicsQualityStrategy(data)])

GetTimeSeries ==
    \E path \in SeriesPaths :
        Call([op |-> "series", path |-> path, value |-> get_time_series(data, path)])

GetAvailableYears ==
    Call([op |-> "years", value |-> get_available_years(data)])

\* get_yearly_report, lines 70-75: grouped is built and the loop begins
GetYearlyReport ==
    /\ res = NoCall
    /\ built = NoCall
    /\ res' = [op |-> "yearly", pc |-> "loop", years |-> GroupedYears(data, {}),
               k |-> 1, report |-> EmptyMap]
    /\ tasks' = NoTasks
    /\ UNCHANGED <<data, built, rows, out, queue, worker>>

\* line 77, the call: run_analysis(observations, strategy) submits the work
\* item for the k-th group and the report coroutine waits for it
YearlyDispatch ==
    /\ res.op = "yearly"
    /\ res.pc = "loop"
    /\ res.k <= Len(res.years)
    /\ tasks' = tasks @@ (res.k :> [pc |-> "awaiting", path |-> "macro.inflation_1y",
                                    arg |-> YearList(res.years[res.k]),
                                    future |-> Pending, received |-> NoneV,
                                    behind |-> \A w \in Workers : worker[w] # Idle])
    /\ queue' = Append(queue, res.k)
    /\ res' = [res EXCEPT !.pc = "awaiting"]
    /\ UNCHANGED <<data, built, rows, out, worker>>

\* line 77, the assignment: run_analysis has returned, report[year] is set
\* and the loop goes on to the next group
YearlyStore ==
    /\ res.op = "yearly"
    /\ res.pc = "awaiting"
    /\ tasks[res.k].pc = "done"
    /\ res' = [res EXCEPT !.pc = "loop", !.k = res.k + 1,
                          !.report = (res.years[res.k] :> tasks[res.k].received) @@ res.report]
    /\ UNCHANGED <<data, built, rows, out, tasks, queue, worker>>

\* line 78
YearlyReturn ==
    /\ res.op = "yearly"
    /\ res.pc = "loop"
    /\ res.k > Len(res.years)
    /\ res' = [res EXCEPT !.pc = "returned"]
    /\ UNCHANGED <<data, built, rows, out, tasks, queue, worker>>

\* the caller takes the result of a finished call
ReportTaken ==
    /\ res.op \in {"quality", "series", "years"} \/ (res.op = "yearly" /\ res.pc = "returned")
    /\ res' = NoCall
    /\ UNCHANGED <<data, built, rows, out, tasks, queue, worker>>

NextReports ==
    \/ RunQualityReport
    \/ GetTimeSeries
    \/ GetAvailableYears
    \/ GetYearlyReport
    \/ YearlyDispatch
    \/ TakeWork
    \/ FinishWork
    \/ ResumeCaller
    \/ YearlyStore
    \/ YearlyReturn
    \/ ReportTaken

SpecReports == InitReports /\ [][NextReports]_vars

----------------------------------------------------------------------------
(* The reports against their statements.  The statements are written over  *)
(* positions of the collection, without the grouping of the code.          *)

DatesOf(d) == {d[i].observation_date : i \in DOMAIN d}
DayNumber(date) == date.year.v * 10000 + date.month.v * 100 + date.day.v

\* the numeric values of path at the positions I of the collection
NumericAt(I, path) ==
    [i \in {j \in I : IsNumeric(ResolveValue(data[j], path))} |-> ResolveValue(data[i], path).v]

\* m is GenericMean(path) over the observations at the positions I
IsMeanOver(m, I, path) ==
    LET V == NumericAt(I, path) IN
    IF DOMAIN V = {} THEN m.d # 0 /\ m.n = 0
    ELSE m.d # 0 /\ m.n * Cardinality(DOMAIN V) = SumFn(V) * m.d

\* label is "YYYY-MM" of the date
IsYearMonth(label, date) ==
    /\ label.t = "str"
    /\ Len(label.s) = 7
    /\ IsDigitRun(SubSeq(label.s, 1, 4)) /\ DigitsValue(SubSeq(label.s, 1, 4)) = date.year.v
    /\ label.s[5] = "-"
    /\ IsDigitRun(SubSeq(label.s, 6, 7)) /\ DigitsValue(SubSeq(label.s, 6, 7)) = date.month.v

\* C17: get_time_series returns two sequences of equal length, one entry
\* per distinct exact observation_date, in chronological order; entry i of
\* the second is GenericMean(path) over exactly the observations of the
\* i-th date and entry i of the first is that date as "YYYY-MM"; an empty
\* collection gives two empty sequences.
C17_TimeSeries ==
    res.op = "series" =>
        LET x == res.value.x_axis
            y == res.value.y_axis
            dates == DatesOf(data)
        IN /\ Len(x) = Len(y)
           /\ Len(x) = Cardinality(dates)
           /\ data = <<>> => x = <<>> /\ y = <<>>
           /\ \A i \in 1..Len(x) :
                  \E date \in dates :
                      /\ Cardinality({e \in dates : DayNumber(e) < DayNumber(date)}) = i - 1
                      /\ IsYearMonth(x[i], date)
                      /\ IsMeanOver(y[i], {j \in DOMAIN data : data[j].observation_date = date},
                                    res.path)

\* three observations, two of them on different days of one month with
\* different means, given out of chronological order
C17_Witness ==
    /\ res.op = "series"
    /\ Len(data) = 3
    /\ Len(res.value.x_axis) = 3
    /\ res.value.x_axis[2] = res.value.x_axis[3]
    /\ res.value.y_axis[2] # res.value.y_axis[3]
    /\ DayNumber(data[1].observation_date) > DayNumber(data[3].observation_date)

\* C18: get_yearly_report returns a mapping whose keys are exactly the
\* years get_available_years returns (the distinct observation years,
\* listed ascending without duplicates) and whose value for year y is
\* GenericMean("macro.inflation_1y") over exactly the observations of year
\* y; the per-year computations are dispatched one at a time, each awaited
\* before the next is dispatched.
C18_YearlyReport ==
    /\ res.op = "years" =>
           /\ {res.value[i] : i \in DOMAIN res.value} =
                  {data[i].observation_date.year.v : i \in DOMAIN data}
           /\ \A i, j \in DOMAIN res.value : i < j => res.value[i] < res.value[j]
    /\ (res.op = "yearly" /\ res.pc = "returned") =>
           /\ DOMAIN res.report =
                  {get_available_years(data)[i] : i \in DOMAIN get_available_years(data)}
           /\ \A y \in DOMAIN res.report :
                  IsMeanOver(res.report[y],
                             {j \in DOMAIN data : data[j].observation_date.year.v = y},
                             "macro.inflation_1y")
    /\ res.op = "yearly" =>
           /\ Cardinality({t \in DOMAIN tasks : tasks[t].pc # "done"}) <= 1
           /\ \A t \in DOMAIN tasks : tasks[t].pc # "done" => t = res.k /\ res.pc = "awaiting"
           /\ Len(queue) + Cardinality({w \in Workers : worker[w] # Idle}) <= 1

\* a report over three years of different means has been returned, the
\* years met in an order that is not ascending
C18_Witness ==
    /\ res.op = "yearly"
    /\ res.pc = "returned"
    /\ Cardinality(DOMAIN res.report) = 3
    /\ res.years[1] > res.years[2]
    /\ \E y, z \in DOMAIN res.report : res.report[y] # res.report[z]
    /\ \A t \in DOMAIN tasks : tasks[t].future.thread = PoolThread

\* gender, age_group and household_size are missing when None, Education
\* Info when edu_level is empty or None, Household Members when the list
\* has no member
IsMissingByCategory(obs, k) ==
    LET demo == obs.demographics IN
    \/ k = "Gender" /\ demo.gender = NoneV
    \/ k = "Age Group" /\ demo.age_group = NoneV
    \/ k = "Household Size" /\ demo.household_size = NoneV
    \/ k = "Education Info" /\ demo.occupation.edu_level \in {NoneV, Str(<<>>)}
    \/ k = "Household Members" /\ Len(demo.household_members.elems) = 0

\* the values of a quality report over a collection that is not empty
QualityValues(report) ==
    /\ DOMAIN report = QualityKeys
    /\ \A k \in QualityKeys :
           /\ report[k].d # 0
           /\ report[k].n * Len(data) =
                  100 * Cardinality({i \in DOMAIN data : IsMissingByCategory(data[i], k)}) * report[k].d
           /\ FracLe(Zero, report[k]) /\ FracLe(report[k], Frac(100, 1))

\* C19: for every collection, the empty one included,
\* DemographicsQualityStrategy.compute returns without raising a mapping
\* with exactly the five keys, each value 100 * (observations missing the
\* category) / (observations), in [0, 100].
C19_QualityReportTotal ==
    res.op = "quality" =>
        /\ ~res.result.raised
        /\ QualityValues(res.result.val)

\* what the code does: the same over every collection that is not empty,
\* and ZeroDivisionError over the empty one
C19_QualityReportNonEmpty ==
    res.op = "quality" =>
        IF data = <<>> THEN res.result = Raised("ZeroDivisionError")
        ELSE /\ ~res.result.raised
             /\ QualityValues(res.result.val)

----------------------------------------------------------------------------
(* gateway.py lines 34-122: VARIABLE_MAP, and main.py lines 63-64, which   *)
(* turn the name or code the user enters into the path of the analysis.    *)
(* A file of one row with one column filled is loaded, and the path of a   *)
(* variable is walked over the observation of that row.                    *)

VARIABLE_MAP ==
    [inflation |-> "macro.inflation_1y", c4030 |-> "macro.inflation_1y",
     inflation_3y |-> "macro.inflation_3y",
     c4031 |-> "macro.unemployment_percept", unemployment |-> "macro.unemployment_percept",
     inflation_perception |-> "macro.inflation_perception_12m",
     c4010 |-> "macro.inflation_perception_12m",
     inflation_uncertainty |-> "macro.inflation_uncertainty",
     c4020 |-> "macro.inflation_uncertainty",
     gdp_growth |-> "macro.econ_growth_12m", e2010 |-> "macro.econ_growth_12m",
     interest_rate |-> "macro.interest_rate_exp", e2020 |-> "macro.interest_rate_exp",
     income |-> "consumption.income_growth", c1150_1 |-> "consumption.income_growth",
     spending |-> "consumption.spending_growth", c1150_2 |-> "consumption.spending_growth",
     major_purchases |-> "consumption.major_purchases_intent",
     c1150_3 |-> "consumption.major_purchases_intent",
     savings |-> "consumption.savings_growth", c1220 |-> "consumption.savings_growth",
     tax_exp |-> "consumption.tax_exp", c1150_4 |-> "consumption.tax_exp",
     public_services |-> "consumption.public_svc_exp", c1150_5 |-> "consumption.public_svc_exp",
     housing_costs |-> "consumption.housing_costs_exp",
     c1150_6 |-> "consumption.housing_costs_exp",
     energy |-> "consumption.energy_exp", c1150_7 |-> "consumption.energy_exp",
     food |-> "consumption.food_exp", c1150_8 |-> "consumption.food_exp",
     job_loss |-> "labor.job_loss_prob", p1410_1 |-> "labor.job_loss_prob",
     job_find |-> "labor.job_find_prob", p1410_2 |-> "labor.job_find_prob",
     work_after_70 |-> "labor.prob_working_after_70", p1410_3 |-> "labor.prob_working_after_70",
     income_increase |-> "labor.prob_inc_increase", p1410_4 |-> "labor.prob_inc_increase",
     leave_labor |-> "labor.prob_leaving_labor_market",
     p1410_5 |-> "labor.prob_leaving_labor_market",
     house_prices |-> "housing.house_price_exp", c3220 |-> "housing.house_price_exp",
     buy_home |-> "housing.buy_home_conditions", c3210 |-> "housing.buy_home_conditions",
     cash |-> "housing.cash_savings", c3250_1 |-> "housing.cash_savings",
     life_insurance |-> "housing.life_insurance", c3250_2 |-> "housing.life_insurance",
     pensions |-> "housing.pension_funds", c3250_3 |-> "housing.pension_funds",
     mutual_funds |-> "housing.mutual_funds", c3250_4 |-> "housing.mutual_funds",
     gov_bonds |-> "housing.public_bonds", c3250_5 |-> "housing.public_bonds",
     corp_bonds |-> "housing.corp_bonds", c3250_6 |-> "housing.corp_bonds",
     stocks |-> "housing.stocks", c3250_7 |-> "housing.stocks",
     business |-> "housing.business_equity", c3250_8 |-> "housing.business_equity",
     crypto |-> "housing.crypto_assets", c3251_9 |-> "housing.crypto_assets",
     gold |-> "housing.precious_metals", c3251_10 |-> "housing.precious_metals",
     mortgage |-> "credit.mortgage_access", c8010_1 |-> "credit.mortgage_access",
     consumer_credit |-> "credit.consumer_credit_access",
     c8010_2 |-> "credit.consumer_credit_access",
     bank_loan |-> "credit.bank_loan_apply", c8010_3 |-> "credit.bank_loan_apply",
     credit_constraint |-> "credit.credit_constraint_flag",
     c8011_1 |-> "credit.credit_constraint_flag",
     gender |-> "demographics.gender", c1010 |-> "demographics.gender",
     age_group |-> "demographics.age_group", c1020 |-> "demographics.age_group",
     household_size |-> "demographics.household_size", c2110 |-> "demographics.household_size",
     children |-> "demographics.num_children", c2120 |-> "demographics.num_children",
     age |-> "demographics.household_members[0].age",
     c2151_1 |-> "demographics.household_members[0].age",
     education |-> "demographics.occupation.edu_level",
     x1040_1 |-> "demographics.occupation.edu_level",
     sector |-> "demographics.occupation.employment_sector",
     x1040_2 |-> "demographics.occupation.employment_sector"]

\* VARIABLE_MAP.get(var_name, var_name)
PathOfVariable(var_name) ==
    IF var_name \in DOMAIN VARIABLE_MAP THEN VARIABLE_MAP[var_name] ELSE var_name

\* path.split('.')
RECURSIVE SplitDots(_, _)
SplitDots(path, from) ==
    IF \A i \in from..Len(path) : SubSeq(path, i, i) # "."
    THEN <<SubSeq(path, from, Len(path))>>
    ELSE LET dot == CHOOSE i \in from..Len(path) :
                        /\ SubSeq(path, i, i) = "."
                        /\ \A j \in from..(i - 1) : SubSeq(path, j, j) # "."
         IN <<SubSeq(path, from, dot - 1)>> \o SplitDots(path, dot + 1)

\* lines 18-28 of compute with the path split as written
ResolveSplit(obs, path) ==
    LET w == Walk(obs, SplitDots(path, 1)) IN
    IF w.ok THEN w.val
    ELSE LET val == DictGet(obs.sentiment_flags, path) IN
         IF IsNone(val) THEN DictGet(obs.sentiment_flags, path \o "_1") ELSE val

\* the names and codes the user may enter, one unknown to the map included
VariableNames == DOMAIN VARIABLE_MAP \cup {"c4032"}

\* the columns a probe file fills, and the cells it fills them with
ProbeColumns == {Header[n] : n \in DOMAIN Header} \ {"Date", "wgt", "emp_status"}
ProbeCells == {<<"1">>, <<"2">>}

\* the file is read: one row, one column filled
OpenProbe ==
    /\ out = NoCall
    /\ rows = <<>>
    /\ data = <<>>
    /\ \E column \in ProbeColumns, cell \in ProbeCells : rows' = <<RowWith(column :> cell)>>
    /\ out' = [op |-> "load", status |-> "running", observations |-> <<>>]
    /\ UNCHANGED <<data, built, res, tasks, queue, worker>>

\* main.py lines 63-64 and compute per observation: the name is looked up
\* and the path resolved over the loaded observation
AnalyseVariable ==
    /\ data # <<>>
    /\ \E var_name \in VariableNames :
           Call([op |-> "variable", name |-> var_name, path |-> PathOfVariable(var_name),
                 walk |-> Walk(data[1], SplitDots(PathOfVariable(var_name), 1)),
                 resolved |-> ResolveSplit(data[1], PathOfVariable(var_name))])

NextVariables ==
    \/ OpenProbe
    \/ LoadRow
    \/ LoadReturn
    \/ AnalyseVariable
    \/ Return

SpecVariables == InitEngine /\ [][NextVariables]_vars

\* the keys of the map that are column names of the file, and the others
ColumnCodes == DOMAIN VARIABLE_MAP \cap {Header[n] : n \in DOMAIN Header}
Mnemonics == DOMAIN VARIABLE_MAP \ ColumnCodes

\* the column the loaded row has a cell in
Probed == CHOOSE column \in ProbeColumns : rows[1][column] # Blank

\* v is the cell of the column as load_all_data stores it: the float,
\* the rounded integer or the text of the cell
IsCellOf(v, column) ==
    \/ v = CellValue(rows[1], column)
    \/ v = IntRound(CellValue(rows[1], column)).val
    \/ v = rows[1][column]

\* the walk of the path of a code ends in a field, and the field holds the
\* cell of the column exactly when the column is the one filled
ReadsColumn(walk, column) ==
    /\ walk.ok
    /\ Probed = column => IsCellOf(walk.val, column)
    /\ Probed # column => ~IsCellOf(walk.val, Probed)

\* C20: every column code of VARIABLE_MAP maps to a path that the
\* attribute walk resolves to a field of CESObservation, the field
\* load_all_data fills from that column; every mnemonic maps to the path
\* of a column code, so that analysing by code or by name reads the data
\* of that column.
C20_VariableMapReadsItsColumn ==
    (res.op = "variable" /\ res.name \in DOMAIN VARIABLE_MAP) =>
        /\ res.name \in ColumnCodes => ReadsColumn(res.walk, res.name)
        /\ res.name \in Mnemonics =>
               \E code \in ColumnCodes :
                   /\ VARIABLE_MAP[code] = res.path
                   /\ ReadsColumn(res.walk, code)

\* the entries that do not read their column
MisdirectedCodes == {"c4031", "c2151_1"}
MisdirectedNames == {"unemployment", "inflation_3y", "age"}

\* what the code does: every other entry is as stated; c4031 and
\* unemployment read the field filled from column c4032, inflation_3y reads
\* the field filled from c4031 to which no code maps, and the path of
\* c2151_1 and age cannot be walked and resolves to None
C20_VariableMapButFive ==
    (res.op = "variable" /\ res.name \in DOMAIN VARIABLE_MAP) =>
        /\ res.name \in ColumnCodes \ MisdirectedCodes => ReadsColumn(res.walk, res.name)
        /\ res.name \in Mnemonics \ MisdirectedNames =>
               \E code \in ColumnCodes \ MisdirectedCodes :
                   /\ VARIABLE_MAP[code] = res.path
                   /\ ReadsColumn(res.walk, code)
        /\ res.name \in {"c4031", "unemployment"} => ReadsColumn(res.walk, "c4032")
        /\ res.name = "inflation_3y" =>
               /\ ReadsColumn(res.walk, "c4031")
               /\ \A code \in ColumnCodes : VARIABLE_MAP[code] # res.path
        /\ res.name \in {"c2151_1", "age"} => ~res.walk.ok /\ res.resolved = NoneV

----------------------------------------------------------------------------
(* gateway.py lines 270-276: the three open maps of an observation, and    *)
(* engine.py lines 24-33 over the loaded collection: what the              *)
(* sentiment_flags fallback contributes.                                   *)

\* the row with one more column than the header of the model
RowAlso(row, column, cell) == (column :> Str(cell)) @@ row

\* a line shorter than its header: csv.DictReader gives None for the
\* columns the line has no cell for
ShortRow(row, columns) == [k \in DOMAIN row |-> IF k \in columns THEN NoValue ELSE row[k]]

FlagRows ==
    {RowWith(EmptyMap),
     RowWith("x6020" :> <<"3">>),
     RowWith("x6020" :> <<" ", "2", ".", "5", " ">>),
     RowWith(("c1150_1_q" :> <<"1">>) @@ ("c4030_nr" :> <<"x">>)),
     RowWith("c4030" :> <<"2", ".", "5">>),
     RowAlso(RowWithout("x6020"), "x6020_1", <<"4">>),
     RowAlso(RowAlso(RowWith(EmptyMap), "x8110_q", <<"7">>), "q_c6", <<"5">>),
     ShortRow(RowWith("c4030" :> <<"2", ".", "5">>), {"x6020", "c1150_1_q", "c4030_nr"})}

FlagFiles == UNION {[1..n -> FlagRows] : n \in 0..MaxRows}

FlagPaths == {"x6020", "macro.c4030", "macro.inflation_1y"}

\* lines 129-134: the file is read and split into rows
OpenFlagged ==
    /\ out = NoCall
    /\ rows = <<>>
    /\ data = <<>>
    /\ \E file \in FlagFiles : rows' = file
    /\ out' = [op |-> "load", status |-> "running", observations |-> <<>>]
    /\ UNCHANGED <<data, built, res, tasks, queue, worker>>

\* GenericMeanStrategy(path).compute(data) over the loaded collection
AnalyseLoaded ==
    /\ out # NoCall
    /\ out.status = "returned"
    /\ \E path \in FlagPaths :
           Call([op |-> "flags", path |-> path,
                 appended |-> [i \in DOMAIN data |-> Contribution(data[i], path)],
                 value |-> GenericMeanStrategy(data, path)])

NextFlags ==
    \/ OpenFlagged
    \/ LoadRow
    \/ LoadReturn
    \/ AnalyseLoaded
    \/ Return

SpecFlags == InitEngine /\ [][NextFlags]_vars

\* the columns of a row whose name holds a marker, or ends with a suffix
ColumnsWith(row, markers) == {c \in DOMAIN row : \E x \in markers : KeyContains(c, x)}
ColumnsEnding(row, suffix) == {c \in DOMAIN row : KeyEndsWith(c, suffix)}

\* the path of the call is resolved at position i through the fallback only
ThroughFallback(i) == ~Walk(data[i], Split(res.path)).ok

\* no observation resolved through the fallback contributes a value, and
\* over a collection resolved so throughout the mean is 0.0
FallbackContributesNothing ==
    res.op = "flags" =>
        /\ \A i \in DOMAIN data : ThroughFallback(i) => res.appended[i] = <<>>
        /\ (\A i \in DOMAIN data : ThroughFallback(i)) => FracEq(res.value, Zero)

\* the map holds exactly the columns, each with the cell of the row
HoldsCells(map, row, columns) ==
    /\ DOMAIN map.items = columns
    /\ \A c \in columns : map.items[c] = row[c]

IsText(v) == (~IsObject(v)) /\ v.t = "str"

\* C21: for every Observation load_all_data produces, sentiment_flags,
\* quarterly_data and quality_audit hold exactly the row's columns whose
\* name contains one of the markers, or ends with _q, or with _nr, each with
\* the unmodified raw cell text as value and never a number; consequently
\* an observation resolved only through the sentiment_flags fallback
\* contributes no value and GenericMean over such a path is 0.0.
C21_OpenMapsHoldRawText ==
    /\ (out # NoCall /\ out.op = "load") =>
           \A k \in DOMAIN out.observations :
               LET obs == out.observations[k]
                   row == rows[k]
               IN /\ HoldsCells(obs.sentiment_flags, row,
                                ColumnsWith(row, {"x6020", "h2020", "c60", "x8020", "x8110"}))
                  /\ HoldsCells(obs.quarterly_data, row, ColumnsEnding(row, "_q"))
                  /\ HoldsCells(obs.quality_audit, row, ColumnsEnding(row, "_nr"))
                  /\ \A c \in DOMAIN obs.sentiment_flags.items : IsText(obs.sentiment_flags.items[c])
                  /\ \A c \in DOMAIN obs.quarterly_data.items : IsText(obs.quarterly_data.items[c])
                  /\ \A c \in DOMAIN obs.quality_audit.items : IsText(obs.quality_audit.items[c])
    /\ FallbackContributesNothing

\* what the code does: the maps hold the cells as the reader gave them,
\* text, or None where the line was shorter than the header, and never a
\* number; the fallback contributes nothing
C21_OpenMapsHoldRowCells ==
    /\ (out # NoCall /\ out.op = "load") =>
           \A k \in DOMAIN out.observations :
               LET obs == out.observations[k]
                   row == rows[k]
               IN /\ HoldsCells(obs.sentiment_flags, row,
                                ColumnsWith(row, {"x6020", "h2020", "c60", "x8020", "x8110"}))
                  /\ HoldsCells(obs.quarterly_data, row, ColumnsEnding(row, "_q"))
                  /\ HoldsCells(obs.quality_audit, row, ColumnsEnding(row, "_nr"))
                  /\ \A c \in DOMAIN obs.sentiment_flags.items :
                         IsText(obs.sentiment_flags.items[c]) \/ obs.sentiment_flags.items[c] = NoneV
                  /\ \A c \in DOMAIN obs.quarterly_data.items :
                         IsText(obs.quarterly_data.items[c]) \/ obs.quarterly_data.items[c] = NoneV
                  /\ \A c \in DOMAIN obs.quality_audit.items :
                         IsText(obs.quality_audit.items[c]) \/ obs.quality_audit.items[c] = NoneV
    /\ FallbackContributesNothing

\* a loaded collection of two observations, one with the text "3" under
\* x6020 and one with "4" under x6020_1, analysed by x6020: both are
\* resolved through the fallback and neither contributes
C21_FallbackReached ==
    /\ res.op = "flags"
    /\ res.path = "x6020"
    /\ Len(data) = 2
    /\ DictGet(data[1].sentiment_flags, "x6020") = Str(<<"3">>)
    /\ DictGet(data[2].sentiment_flags, "x6020_1") = Str(<<"4">>)
    /\ res.value = Zero

====
